---------------------------- MODULE Spec2Model ----------------------------
(***************************************************************************)
(* Model of the schema helper core of libyang (tree_schema_helpers.c):     *)
(* the module loader lysp_load_module, the typedef collision checker       *)
(* lysp_check_typedefs and the type resolver lysp_type_find.               *)
(*                                                                         *)
(* C strings that the code inspects character by character are sequences   *)
(* of one-character strings; names the code only compares with strcmp are  *)
(* plain values.  A NULL pointer is None.                                  *)
(***************************************************************************)
EXTENDS Integers, Sequences, FiniteSets, TLC

VARIABLES
    ctx_list,   \* ctx->list: the context registry, slot -> module or NoMod
    last,       \* the last lysp_load_module call: arguments and results
    acq,        \* history of that call: context options and sources consulted
    pmod,       \* a parsed module: typedefs, includes, nodes with typedefs
    chk,        \* lysp_check_typedefs running on pmod
    find,       \* the last lysp_type_find call on pmod
    env,        \* the structures and strings a helper function is given
    call        \* the last call of a helper function: arguments and result

loadVars == <<ctx_list, last, acq>>
tpdfVars == <<pmod, chk, find>>
helpVars == <<env, call>>
vars == <<ctx_list, last, acq, pmod, chk, find, env, call>>

\* NULL as a string, and NULL as a module pointer (modules are slot numbers)
None == "NULL"
NullMod == 0

(***************************************************************************)
(* Bounds of the model.                                                    *)
(***************************************************************************)
MaxMods == 3
MaxTypedefs == 3
MaxIter == 2
MaxImports == 2
MaxNodeidLen == 9
MaxIdLen == 2

ModIds == 1..MaxMods
Names == {"A", "B"}
Revs == {"2019-01-01", "2020-01-01"}

(***************************************************************************)
(* struct lys_module as far as the loader reads and writes it.             *)
(***************************************************************************)
Module(n, r, i, l, p, g) ==
    [name |-> n, revision |-> r, implemented |-> i, latest_revision |-> l,
     parsed |-> p, parsing |-> g]

\* an unused slot of the registry
NoMod == Module("", None, 0, 0, FALSE, FALSE)

InCtx(list) == {i \in ModIds : list[i] # NoMod}

\* ly_ctx_get_module(ctx, name, revision): the modules of that name and revision
ly_ctx_get_module(list, name, revision) ==
    {i \in InCtx(list) : list[i].name = name /\ list[i].revision = revision}

\* ly_ctx_get_module_latest(ctx, name): a module of that name, the one marked
\* latest_revision = 2 when there is one
ly_ctx_get_module_latest(list, name) ==
    LET all == {i \in InCtx(list) : list[i].name = name}
        top == {i \in all : list[i].latest_revision = 2}
    IN  IF top # {} THEN top ELSE all

\* ly_ctx_get_module_implemented(ctx, name)
ly_ctx_get_module_implemented(list, name) ==
    {i \in InCtx(list) : list[i].name = name /\ list[i].implemented = 1}

\* F applied to the value of v, v computed once (a local variable assigned
\* once and read several times)
Bind(v, F(_)) == CHOOSE r \in {F(x) : x \in {v}} : TRUE

\* a pointer result of a lookup: one of the matches, NULL when there is none
OrNull(S) == IF S = {} THEN {NullMod} ELSE S


(***************************************************************************)
(* The post-parse check, lysp_load_module_check.  A unit is what the       *)
(* parser produced: name, revs (newest first), and for a submodule its     *)
(* belongs-to and parsing flag.  The path only produces warnings.          *)
(***************************************************************************)
Unit(n, rs, l) ==
    [name |-> n, revs |-> rs, latest_revision |-> l,
     submodule |-> FALSE, belongsto |-> None, parsing |-> FALSE]

CheckData(n, r) ==
    [name |-> n, revision |-> r, path |-> None, submoduleof |-> None]

lysp_load_module_check(unit, info) ==
    IF info.name # None /\ info.name # unit.name
    THEN "LY_EINVAL"
    ELSE IF info.revision # None
            /\ (unit.revs = <<>> \/ info.revision # unit.revs[1])
    THEN "LY_EINVAL"
    ELSE IF unit.submodule /\ info.submoduleof # unit.belongsto
    THEN "LY_EVALID"
    ELSE IF unit.submodule /\ unit.parsing
    THEN "LY_EVALID"
    ELSE "LY_SUCCESS"

(***************************************************************************)
(* The parser, as the loader sees it: data that does not parse or does not *)
(* pass the check yields NULL and leaves the context alone; otherwise the  *)
(* new module is linked into the context and returned.                     *)
(***************************************************************************)
FreeSlots(list) == ModIds \ InCtx(list)

FirstFree(list) == CHOOSE i \in FreeSlots(list) : \A j \in FreeSlots(list) : i <= j

\* what a source answers: kind "miss", "data" (ok: it parses, to unit), and
\* for the search directories also "search_error" and "open_failed"
Answer(k, ok, u) == [kind |-> k, ok |-> ok, unit |-> u]

NoUnit == Unit(None, <<>>, 0)

lys_parse_mem_module(list, data, implement, info) ==
    IF ~data.ok
    THEN [mod |-> NullMod, list |-> list, out |-> "parse_failed", full |-> FALSE]
    ELSE IF lysp_load_module_check(data.unit, info) # "LY_SUCCESS"
    THEN [mod |-> NullMod, list |-> list, out |-> "check_failed", full |-> FALSE]
    ELSE IF FreeSlots(list) = {}
    THEN [mod |-> NullMod, list |-> list, out |-> "parse_failed", full |-> TRUE]
    ELSE Bind(FirstFree(list), LAMBDA id :
            [mod |-> id,
             list |-> [list EXCEPT ![id] =
                          Module(data.unit.name,
                                 IF data.unit.revs = <<>> THEN None
                                 ELSE data.unit.revs[1],
                                 0, data.unit.latest_revision, TRUE, FALSE)],
             out |-> "ok", full |-> FALSE])

\* the removal forgotten
ly_set_rm_kept(list, mod) == list

\* ly_set_rm(&ctx->list, mod) followed by lys_module_free(mod)
ly_set_rm(list, mod) == [list EXCEPT ![mod] = NoMod]

(***************************************************************************)
(* lys_module_localfile: search the directories, open the file, parse it.  *)
(* file is the answer of the search directories.                           *)
(***************************************************************************)
lys_module_localfile(list, name, revision, implement, file) ==
    IF file.kind = "search_error"
    THEN [ret |-> "LY_ESYS", mod |-> NullMod, list |-> list, out |-> "error",
          full |-> FALSE]
    ELSE IF file.kind = "miss"
    THEN [ret |-> "LY_ENOTFOUND", mod |-> NullMod, list |-> list, out |-> "miss",
          full |-> FALSE]
    ELSE IF file.kind = "open_failed"
    THEN [ret |-> "LY_ESYS", mod |-> NullMod, list |-> list, out |-> "error",
          full |-> FALSE]
    ELSE Bind(lys_parse_mem_module(list, file, implement,
                                   CheckData(name, revision)), LAMBDA p :
            [ret |-> IF p.mod = NullMod THEN "LY_EVALID" ELSE "LY_SUCCESS",
             mod |-> p.mod, list |-> p.list, out |-> p.out, full |-> p.full])

(***************************************************************************)
(* lysp_load_module.  c holds the arguments, the context options and what  *)
(* the environment answers: clb (the callback's answer: "miss" or data),   *)
(* file (the search directories' answer) and compile_ok (lys_compile).     *)
(* st is the local state: *mod, the registry, the sources consulted.       *)
(***************************************************************************)
Consulted(st, src, out) == Append(st.log, [src |-> src, out |-> out])

\* lines 769-785: the callback block
search_clb(st, c) ==
    IF ~c.imp_clb
    THEN st
    ELSE IF c.clb.kind = "miss"
    THEN [st EXCEPT !.log = Consulted(st, "clb", "miss")]
    ELSE Bind(lys_parse_mem_module(st.list, c.clb, c.implement,
                                   CheckData(c.name, c.revision)), LAMBDA p :
            IF p.mod # NullMod /\ c.implement /\ ~c.compile_ok
            THEN [st EXCEPT !.mod = NullMod,
                            !.list = ly_set_rm(p.list, p.mod),
                            !.log = Consulted(st, "clb", "compile_failed")]
            ELSE [st EXCEPT !.mod = p.mod, !.list = p.list,
                            !.log = Consulted(st, "clb", p.out),
                            !.full = st.full \/ p.full])

\* lines 791-794: the search directories block
search_file(st, c) ==
    IF c.disable_searchdirs
    THEN st
    ELSE Bind(lys_module_localfile(st.list, c.name, c.revision,
                                   c.implement, c.file), LAMBDA f :
            [st EXCEPT !.mod = IF f.ret = "LY_SUCCESS" THEN f.mod ELSE st.mod,
                       !.list = f.list,
                       !.log = Consulted(st, "file", f.out),
                       !.full = st.full \/ f.full])

\* line 786: if (!(*mod) && !(ctx->flags & LY_CTX_PREFER_SEARCHDIRS)) goto search_file
GotoSearchFile(mod, prefer) == mod = NullMod /\ ~prefer

\* line 795: if (!(*mod) && (ctx->flags & LY_CTX_PREFER_SEARCHDIRS)) goto search_clb
GotoSearchClb(mod, prefer) == mod = NullMod /\ prefer

\* the order of the sources swapped
ClbFirst_swapped(prefer) == prefer

\* line 767: which block is entered first
ClbFirst(prefer) == ~prefer

\* lines 767-798; a third block is the furthest the two gotos are followed
Acquire(st, c) ==
    IF ClbFirst(c.prefer_searchdirs)
    THEN Bind(search_clb(st, c), LAMBDA s1 :
            IF GotoSearchFile(s1.mod, c.prefer_searchdirs)
            THEN Bind(search_file(s1, c), LAMBDA s2 :
                    IF GotoSearchClb(s2.mod, c.prefer_searchdirs)
                    THEN search_clb(s2, c)
                    ELSE s2)
            ELSE s1)
    ELSE Bind(search_file(st, c), LAMBDA s1 :
            IF GotoSearchClb(s1.mod, c.prefer_searchdirs)
            THEN Bind(search_clb(s1, c), LAMBDA s2 :
                    IF GotoSearchFile(s2.mod, c.prefer_searchdirs)
                    THEN search_file(s2, c)
                    ELSE s2)
            ELSE s1)

\* lines 800-804: promote the latest_revision flag of a freshly loaded module
PromoteLatest(list, mod, revision) ==
    IF mod # NullMod /\ revision = None /\ list[mod].latest_revision = 1
    THEN [list EXCEPT ![mod].latest_revision = 2]
    ELSE list

\* line 756: the module has to be acquired
NotInContext(list, mod, require_parsed) ==
    mod = NullMod \/ (require_parsed /\ ~list[mod].parsed)

\* line 760: collision with an implemented revision before acquiring
DeniedBeforeLoad(implement, m) == implement /\ m # NullMod

\* no collision check for a module of the context
DeniedInContext_never(implement, m, mod) == FALSE

\* lines 807-809: collision with another implemented revision
DeniedInContext(implement, m, mod) == implement /\ m # NullMod /\ m # mod

\* no circular check
Circular_never(list, mod) == FALSE

\* line 819: the circular check
Circular(list, mod) == list[mod].parsed /\ list[mod].parsing

\* the module marked whether or not implement is set
MarkImplemented_always(list, mod, implement) ==
    [list EXCEPT ![mod].implemented = 1]

\* lines 830-833: mark the module implemented
MarkImplemented(list, mod, implement) ==
    IF implement THEN [list EXCEPT ![mod].implemented = 1] ELSE list

Result(ret, msg, mod, list, log, from_ctx, full) ==
    [ret |-> ret, msg |-> msg, mod |-> mod, list |-> list, log |-> log,
     from_ctx |-> from_ctx, full |-> full]

\* found: what ly_ctx_get_module / ly_ctx_get_module_latest returned (747-754)
\* m:     what ly_ctx_get_module_implemented returns
lysp_load_module(list, c, found, m) ==
    IF NotInContext(list, found, c.require_parsed)
    THEN IF DeniedBeforeLoad(c.implement, m)
         THEN Result("LY_EDENIED", "other implemented revision", NullMod, list,
                     <<>>, FALSE, FALSE)
         ELSE Bind(Acquire([mod |-> NullMod, list |-> list, log |-> <<>>,
                            full |-> FALSE], c), LAMBDA a :
              Bind(PromoteLatest(a.list, a.mod, c.revision), LAMBDA l :
                IF a.mod = NullMod
                THEN Result("LY_EVALID", "load failed", NullMod, l, a.log,
                            FALSE, a.full)
                ELSE Result("LY_SUCCESS", "", a.mod,
                            MarkImplemented(l, a.mod, c.implement), a.log,
                            FALSE, a.full)))
    ELSE IF DeniedInContext(c.implement, m, found)
         THEN Result("LY_EDENIED", "other implemented revision", NullMod, list,
                     <<>>, TRUE, FALSE)
         ELSE IF Circular(list, found)
         THEN Result("LY_EVALID", "circular dependency", NullMod, list, <<>>,
                     TRUE, FALSE)
         ELSE Result("LY_SUCCESS", "", found,
                     MarkImplemented(list, found, c.implement), <<>>, TRUE,
                     FALSE)


(***************************************************************************)
(* C strings: name[i] counts from 0 and the string ends with NUL.          *)
(***************************************************************************)
NUL == "NUL"

At(str, i) == IF i < Len(str) THEN str[i + 1] ELSE NUL

\* !strncmp(&a[i], &b[j], n)
RECURSIVE StrnEq(_, _, _, _, _)
StrnEq(a, i, b, j, n) ==
    IF n = 0 THEN TRUE
    ELSE IF At(a, i) # At(b, j) THEN FALSE
    ELSE IF At(a, i) = NUL THEN TRUE
    ELSE StrnEq(a, i + 1, b, j + 1, n - 1)

\* !strcmp(a, b)
StrEq(a, b) == a = b

\* strlen
strlen(str) == Len(str)

(***************************************************************************)
(* lysp_type_str2builtin                                                   *)
(***************************************************************************)
lysp_type_str2builtin_unknown(name, len) == "LY_TYPE_UNKNOWN"

lysp_type_str2builtin(name, len) ==
    IF len >= 4
    THEN IF At(name, 0) = "b"
         THEN IF At(name, 1) = "i"
              THEN IF len = 6 /\ StrnEq(name, 2, <<"n", "a", "r", "y">>, 0, 4)
                   THEN "LY_TYPE_BINARY"
                   ELSE IF len = 4 /\ StrnEq(name, 2, <<"t", "s">>, 0, 2)
                   THEN "LY_TYPE_BITS"
                   ELSE "LY_TYPE_UNKNOWN"
              ELSE IF len = 7 /\ StrnEq(name, 1, <<"o", "o", "l", "e", "a", "n">>, 0, 6)
              THEN "LY_TYPE_BOOL"
              ELSE "LY_TYPE_UNKNOWN"
         ELSE IF At(name, 0) = "d"
         THEN IF len = 9 /\ StrnEq(name, 1, <<"e", "c", "i", "m", "a", "l", "6", "4">>, 0, 8)
              THEN "LY_TYPE_DEC64"
              ELSE "LY_TYPE_UNKNOWN"
         ELSE IF At(name, 0) = "e"
         THEN IF len = 5 /\ StrnEq(name, 1, <<"m", "p", "t", "y">>, 0, 4)
              THEN "LY_TYPE_EMPTY"
              ELSE IF len = 11 /\ StrnEq(name, 1, <<"n", "u", "m", "e", "r", "a", "t", "i", "o", "n">>, 0, 10)
              THEN "LY_TYPE_ENUM"
              ELSE "LY_TYPE_UNKNOWN"
         ELSE IF At(name, 0) = "i"
         THEN IF At(name, 1) = "n"
              THEN IF len = 4 /\ StrnEq(name, 2, <<"t", "8">>, 0, 2)
                   THEN "LY_TYPE_INT8"
                   ELSE IF len = 5
                   THEN IF StrnEq(name, 2, <<"t", "1", "6">>, 0, 3)
                        THEN "LY_TYPE_INT16"
                        ELSE IF StrnEq(name, 2, <<"t", "3", "2">>, 0, 3)
                        THEN "LY_TYPE_INT32"
                        ELSE IF StrnEq(name, 2, <<"t", "6", "4">>, 0, 3)
                        THEN "LY_TYPE_INT64"
                        ELSE "LY_TYPE_UNKNOWN"
                   ELSE IF len = 19
                           /\ StrnEq(name, 2, <<"s", "t", "a", "n", "c", "e", "-", "i", "d", "e", "n", "t", "i", "f", "i", "e", "r">>, 0, 17)
                   THEN "LY_TYPE_INST"
                   ELSE "LY_TYPE_UNKNOWN"
              ELSE IF len = 11 /\ StrnEq(name, 1, <<"d", "e", "n", "t", "i", "t", "y", "r", "e", "f">>, 0, 10)
              THEN "LY_TYPE_IDENT"
              ELSE "LY_TYPE_UNKNOWN"
         ELSE IF At(name, 0) = "l"
         THEN IF len = 7 /\ StrnEq(name, 1, <<"e", "a", "f", "r", "e", "f">>, 0, 6)
              THEN "LY_TYPE_LEAFREF"
              ELSE "LY_TYPE_UNKNOWN"
         ELSE IF At(name, 0) = "s"
         THEN IF len = 6 /\ StrnEq(name, 1, <<"t", "r", "i", "n", "g">>, 0, 5)
              THEN "LY_TYPE_STRING"
              ELSE "LY_TYPE_UNKNOWN"
         ELSE IF At(name, 0) = "u"
         THEN IF At(name, 1) = "n"
              THEN IF len = 5 /\ StrnEq(name, 2, <<"i", "o", "n">>, 0, 3)
                   THEN "LY_TYPE_UNION"
                   ELSE "LY_TYPE_UNKNOWN"
              ELSE IF At(name, 1) = "i" /\ At(name, 2) = "n"
                      /\ At(name, 3) = "t"
              THEN IF len = 5 /\ At(name, 4) = "8"
                   THEN "LY_TYPE_UINT8"
                   ELSE IF len = 6
                   THEN IF StrnEq(name, 4, <<"1", "6">>, 0, 2)
                        THEN "LY_TYPE_UINT16"
                        ELSE IF StrnEq(name, 4, <<"3", "2">>, 0, 2)
                        THEN "LY_TYPE_UINT32"
                        ELSE IF StrnEq(name, 4, <<"6", "4">>, 0, 2)
                        THEN "LY_TYPE_UINT64"
                        ELSE "LY_TYPE_UNKNOWN"
                   ELSE "LY_TYPE_UNKNOWN"
              ELSE "LY_TYPE_UNKNOWN"
         ELSE "LY_TYPE_UNKNOWN"
    ELSE "LY_TYPE_UNKNOWN"

(***************************************************************************)
(* A parsed module as the typedef code reads it: the names of its          *)
(* top-level typedefs, of the top-level typedefs of each included          *)
(* submodule, and of the typedefs of three schema nodes; parent[n] is the  *)
(* parent of node n, NoNode for a node at the top.                         *)
(***************************************************************************)
NoNode == 0
NoTpdf == 0

Pmod(t, inc, nt, par) ==
    [typedefs |-> t, includes |-> inc, nodes |-> nt, parent |-> par]

\* lysp_node_typedefs(node)
lysp_node_typedefs(m, node) == m.nodes[node]

\* lines 314-329: the first typedef of the node with that name, or NULL
lysp_type_match(m, name, node) ==
    Bind(lysp_node_typedefs(m, node), LAMBDA typedefs :
        IF \E u \in 1..Len(typedefs) : StrEq(name, typedefs[u])
        THEN CHOOSE u \in 1..Len(typedefs) :
                /\ StrEq(name, typedefs[u])
                /\ \A v \in 1..(u - 1) : ~StrEq(name, typedefs[v])
        ELSE NoTpdf)

(***************************************************************************)
(* The hash tables of identifiers: lyht_insert refuses a value that is     *)
(* already stored, lyht_find returns 0 when the value is stored.           *)
(***************************************************************************)
lyht_insert(ht, name) == IF name \in ht THEN "LY_EEXIST" ELSE "LY_SUCCESS"

lyht_inserted(ht, name) == ht \cup {name}

lyht_find(ht, name) == IF name \in ht THEN 0 ELSE 1

(***************************************************************************)
(* lysp_check_typedef(ctx, node, tpdf, tpdfs_global, tpdfs_scoped), tpdf   *)
(* being typedefs[u].                                                      *)
(***************************************************************************)
\* lines 515-524: a typedef earlier in the same list has the name
SiblingClash(typedefs, u) ==
    \E v \in 1..(u - 1) : StrEq(typedefs[u], typedefs[v])

\* line 526: the step of the loop over the parents
NextParent(m, node, parent) == m.parent[node]

\* lines 526-532: "clash" when a parent declares the name, "none" when the
\* loop ends without, "loop" when the loop comes back to the same parent
RECURSIVE ParentWalk(_, _, _, _)
ParentWalk(m, name, node, parent) ==
    IF parent = NoNode THEN "none"
    ELSE IF lysp_type_match(m, name, parent) # NoTpdf THEN "clash"
    ELSE Bind(NextParent(m, node, parent), LAMBDA nxt :
            IF nxt = parent THEN "loop"
            ELSE ParentWalk(m, name, node, nxt))

\* line 539: if (!lyht_find(tpdfs_global, &name, hash, NULL))
ScopedCollision_inverted(g, name) == lyht_find(g, name) # 0

ScopedCollision(g, name) == lyht_find(g, name) = 0

\* line 545: if (lyht_insert(tpdfs_global, &name, hash, NULL))
TopLevelCollision_never(g, name) == FALSE

TopLevelCollision(g, name) == lyht_insert(g, name) # "LY_SUCCESS"

TpdfResult(ret, why, g, sc) ==
    [ret |-> ret, why |-> why, ids_global |-> g, ids_scoped |-> sc]

lysp_check_typedef(m, node, typedefs, u, g, sc) ==
    Bind(typedefs[u], LAMBDA name :
    IF lysp_type_str2builtin(name, strlen(name)) # "LY_TYPE_UNKNOWN"
    THEN TpdfResult("LY_EEXIST", "built-in type", g, sc)
    ELSE IF node # NoNode /\ SiblingClash(typedefs, u)
    THEN TpdfResult("LY_EEXIST", "sibling type", g, sc)
    ELSE Bind(IF node # NoNode
              THEN ParentWalk(m, name, node, m.parent[node])
              ELSE "none", LAMBDA walk :
         IF walk = "clash"
         THEN TpdfResult("LY_EEXIST", "another scoped type", g, sc)
         ELSE IF walk = "loop"
         THEN TpdfResult("no return", "", g, sc)
         ELSE IF node # NoNode
         THEN IF ScopedCollision(g, name)
              THEN TpdfResult("LY_EEXIST", "top-level type", g,
                              lyht_inserted(sc, name))
              ELSE TpdfResult("LY_SUCCESS", "", g, lyht_inserted(sc, name))
         ELSE IF TopLevelCollision(g, name)
              THEN TpdfResult("LY_EEXIST", "another top-level type", g, sc)
              ELSE TpdfResult("LY_SUCCESS", "", lyht_inserted(g, name), sc)))

(***************************************************************************)
(* lysp_check_typedefs(ctx, mod), one typedef a step: first the top-level  *)
(* typedefs of the module and of its submodules, then the typedefs of the  *)
(* nodes of ctx->tpdfs_nodes, then the cleanup.                            *)
(***************************************************************************)
RECURSIVE Flatten(_)
Flatten(seqs) ==
    IF seqs = <<>> THEN <<>> ELSE Head(seqs) \o Flatten(Tail(seqs))

\* lines 576-587: the top-level typedefs in the order they are checked
TopLevel(m) == m.typedefs \o Flatten(m.includes)

\* ctx->tpdfs_nodes: the nodes that define typedefs, as the parser met them
tpdfs_nodes(m) == SelectSeq(<<1, 2, 3>>, LAMBDA n : m.nodes[n] # <<>>)

\* lines 588-595: the scoped typedefs in the order they are checked
Scoped(m, nodes) ==
    Flatten([i \in 1..Len(nodes) |->
                [u \in 1..Len(m.nodes[nodes[i]]) |->
                    [node |-> nodes[i], u |-> u]]])

NoCur == [node |-> NoNode, u |-> NoTpdf, name |-> <<>>]

Chk(pc, k, nodes, g, sc, ok, ret, cur, res, why, iter) ==
    [pc |-> pc, k |-> k, tpdfs_nodes |-> nodes, ids_global |-> g,
     ids_scoped |-> sc, ok |-> ok, ret |-> ret, cur |-> cur, res |-> res,
     why |-> why, iter |-> iter]

\* where the function continues after typedef k of a phase was accepted
AfterGlobal(m, k, nodes) ==
    IF k < Len(TopLevel(m)) THEN "global"
    ELSE IF Scoped(m, nodes) # <<>> THEN "scoped" ELSE "cleanup"

AfterScoped(m, k, nodes) ==
    IF k < Len(Scoped(m, nodes)) THEN "scoped" ELSE "cleanup"

StartChk(m) ==
    Chk(IF TopLevel(m) # <<>> THEN "global"
        ELSE IF Scoped(m, tpdfs_nodes(m)) # <<>> THEN "scoped" ELSE "cleanup",
        1, tpdfs_nodes(m), {}, {}, TRUE, "LY_EVALID", NoCur, "", "", 0)

NoPmod == Pmod(<<>>, <<>>, <<>>, <<>>)

NoChk == Chk("idle", 0, <<>>, {}, {}, TRUE, "", NoCur, "", "", 0)

(***************************************************************************)
(* Prefixes and lysp_module_find_prefix.  Module 1 is the module the       *)
(* search starts in, module 2 the module it imports.                       *)
(***************************************************************************)
NoPos == -1

\* strchr(str, c): the offset of the first c in str, NoPos for NULL
strchr(str, c) ==
    IF \E i \in 0..(Len(str) - 1) : At(str, i) = c
    THEN CHOOSE i \in 0..(Len(str) - 1) :
            /\ At(str, i) = c
            /\ \A j \in 0..(i - 1) : At(str, j) # c
    ELSE NoPos

\* &str[i]
From(str, i) == SubSeq(str, i + 1, Len(str))

Import(prefix, module) == [prefix |-> prefix, module |-> module]

ModPrefix == <<<<"m">>, <<"o">>>>

ModImports == <<<<Import(<<"o">>, 2)>>, <<>>>>

\* lines 896-899: strncmp of the own prefix, then ly_ctx_get_module, which
\* finds the module when it is registered in its context
OwnPrefixOf(own, self, registered, prefix, len) ==
    IF StrnEq(own, 0, prefix, 0, len) /\ At(own, len) = NUL
    THEN IF registered THEN self ELSE NullMod
    ELSE NullMod

OwnPrefix(mod, registered, prefix, len) ==
    OwnPrefixOf(ModPrefix[mod], mod, registered, prefix, len)

\* line 903: imp->prefix is the len bytes of prefix
ImportMatches_strncmp_only(imp, prefix, len) ==
    StrnEq(imp.prefix, 0, prefix, 0, len)

ImportMatches(imp, prefix, len) ==
    StrnEq(imp.prefix, 0, prefix, 0, len) /\ At(imp.prefix, len) = NUL

\* lines 901-908: the first import with the prefix
ImportPrefixOf(imports, prefix, len) ==
    IF \E i \in 1..Len(imports) : ImportMatches(imports[i], prefix, len)
    THEN imports[CHOOSE i \in 1..Len(imports) :
            /\ ImportMatches(imports[i], prefix, len)
            /\ \A j \in 1..(i - 1) :
                  ~ImportMatches(imports[j], prefix, len)].module
    ELSE NullMod

ImportPrefix(mod, prefix, len) ==
    ImportPrefixOf(ModImports[mod], prefix, len)

\* lines 894-908: FIND_MODULE on a module with the prefix own and the
\* imports given; self is the module itself
FIND_MODULE(own, imports, self, registered, prefix, len) ==
    Bind(OwnPrefixOf(own, self, registered, prefix, len), LAMBDA m :
        IF m # NullMod THEN m ELSE ImportPrefixOf(imports, prefix, len))

\* lines 922-929
lysp_module_find_prefix(mod, registered, prefix, len) ==
    Bind(OwnPrefix(mod, registered, prefix, len), LAMBDA m :
        IF m # NullMod THEN m ELSE ImportPrefix(mod, prefix, len))

(***************************************************************************)
(* lysp_type_find(id, start_node, start_module, type, tpdf, node, module). *)
(* mods[i] is the parsed module i; the nodes are those of start_module.    *)
(***************************************************************************)
Tpdf(where, at, u) == [where |-> where, at |-> at, u |-> u]

NoMatch == Tpdf("NULL", 0, 0)

\* the caller's *tpdf, which the function has not written
Unset == Tpdf("unset", 0, 0)

\* line 438
ScopedWalkApplies_any(start_node, module, start_module) ==
    start_node # NoNode

ScopedWalkApplies(start_node, module, start_module) ==
    start_node # NoNode /\ module = start_module

\* lines 440-448: the node the walk stops at and the typedef matched there
RECURSIVE NodeWalk(_, _, _)
NodeWalk(m, name, node) ==
    IF node = NoNode THEN [node |-> NoNode, tpdf |-> NoMatch]
    ELSE Bind(lysp_type_match(m, name, node), LAMBDA u :
            IF u # NoTpdf
            THEN [node |-> node, tpdf |-> Tpdf("node", node, u)]
            ELSE NodeWalk(m, name, m.parent[node]))

\* lines 452-460 and 465-471: the first typedef of the list with the name
FirstNamed(typedefs, name) ==
    IF \E u \in 1..Len(typedefs) : StrEq(name, typedefs[u])
    THEN CHOOSE u \in 1..Len(typedefs) :
            /\ StrEq(name, typedefs[u])
            /\ \A v \in 1..(u - 1) : ~StrEq(name, typedefs[v])
    ELSE NoTpdf

\* lines 463-472: the first include whose submodule has the name
RECURSIVE SearchIncludes(_, _, _)
SearchIncludes(includes, name, i) ==
    IF i > Len(includes) THEN NoMatch
    ELSE Bind(FirstNamed(includes[i], name), LAMBDA v :
            IF v # NoTpdf THEN Tpdf("include", i, v)
            ELSE SearchIncludes(includes, name, i + 1))

Found(ret, type, tpdf, node, module) ==
    [ret |-> ret, type |-> type, tpdf |-> tpdf, node |-> node,
     module |-> module]

\* lines 451-474
SearchModule(m, name, tpdf, node, module) ==
    Bind(FirstNamed(m.typedefs, name), LAMBDA u :
        IF u # NoTpdf
        THEN Found("LY_SUCCESS", "LY_TYPE_UNKNOWN", Tpdf("top", 0, u), node,
                   module)
        ELSE Bind(SearchIncludes(m.includes, name, 1), LAMBDA t :
                IF t # NoMatch
                THEN Found("LY_SUCCESS", "LY_TYPE_UNKNOWN", t, node, module)
                ELSE Found("LY_ENOTFOUND", "LY_TYPE_UNKNOWN", tpdf, node,
                           module)))

\* lines 436-474
SearchFrom(mods, name, start_node, start_module, module) ==
    IF module = NullMod
    THEN Found("LY_ENOTFOUND", "LY_TYPE_UNKNOWN", Unset, NoNode, module)
    ELSE IF ScopedWalkApplies(start_node, module, start_module)
    THEN Bind(NodeWalk(mods[start_module], name, start_node), LAMBDA w :
            IF w.tpdf # NoMatch
            THEN Found("LY_SUCCESS", "LY_TYPE_UNKNOWN", w.tpdf, w.node, module)
            ELSE SearchModule(mods[module], name, NoMatch, NoNode, module))
    ELSE SearchModule(mods[module], name, Unset, NoNode, module)

lysp_type_find(mods, registered, id, start_node, start_module) ==
    Bind(strchr(id, ":"), LAMBDA str :
        IF str # NoPos
        THEN SearchFrom(mods, From(id, str + 1), start_node, start_module,
                        lysp_module_find_prefix(start_module, registered,
                                                id, str))
        ELSE Bind(lysp_type_str2builtin(id, strlen(id)), LAMBDA type :
                IF type # "LY_TYPE_UNKNOWN"
                THEN Found("LY_SUCCESS", type, NoMatch, NoNode, start_module)
                ELSE SearchFrom(mods, id, start_node, start_module,
                                start_module)))

NoEnv == [kind |-> "none"]

NoHelp == [op |-> "none"]

NoFind ==
    [op |-> "none", id |-> <<>>, start_node |-> NoNode, registered |-> FALSE,
     ret |-> "", type |-> "", tpdf |-> Unset, node |-> NoNode,
     module |-> NullMod]

(***************************************************************************)
(* The contexts the loader is called in: up to two modules already in the  *)
(* registry, at most one implemented revision of a name, no two modules    *)
(* with the same name and revision.                                        *)
(***************************************************************************)
Bit == {0, 1}

FirstModules ==
    {Module("A", "2019-01-01", i, l, p, g) :
        i \in Bit, l \in 0..2, p \in BOOLEAN, g \in BOOLEAN}

SecondModules ==
    {Module("A", "2020-01-01", i, l, TRUE, FALSE) : i \in Bit, l \in {0, 2}}
    \cup {Module("B", "2019-01-01", i, 2, TRUE, FALSE) : i \in Bit}

WellFormed(m) == m.parsing => m.parsed

OneImplemented(list) ==
    \A i, j \in InCtx(list) :
        (list[i].name = list[j].name /\ list[i].implemented = 1
            /\ list[j].implemented = 1) => i = j

Context(a, b) ==
    [i \in ModIds |-> IF i = 1 THEN a ELSE IF i = 2 THEN b ELSE NoMod]

Contexts ==
    {list \in {Context(a, b) : a \in FirstModules \cup {NoMod},
                               b \in SecondModules \cup {NoMod}} :
        /\ \A i \in ModIds : WellFormed(list[i])
        /\ OneImplemented(list)}

(***************************************************************************)
(* What the environment can answer to one call.                            *)
(***************************************************************************)
Units(name) ==
    {Unit(name, <<r>>, l) : r \in Revs, l \in Bit}
    \cup {Unit("X", <<"2020-01-01">>, 1)}

ClbAnswers(imp_clb, name) ==
    IF imp_clb
    THEN {Answer("miss", FALSE, NoUnit), Answer("data", FALSE, NoUnit)}
         \cup {Answer("data", TRUE, u) : u \in Units(name)}
    ELSE {Answer("miss", FALSE, NoUnit)}

FileAnswers(disable, name) ==
    IF ~disable
    THEN {Answer("miss", FALSE, NoUnit), Answer("search_error", FALSE, NoUnit),
          Answer("open_failed", FALSE, NoUnit), Answer("data", FALSE, NoUnit)}
         \cup {Answer("data", TRUE, u) : u \in Units(name)}
    ELSE {Answer("miss", FALSE, NoUnit)}

\* the call consults the sources: only then do their answers matter
Acquires(list, found, m, implement, require_parsed) ==
    NotInContext(list, found, require_parsed) /\ ~DeniedBeforeLoad(implement, m)

NoCall ==
    [op |-> "none", name |-> None, revision |-> None, implement |-> FALSE,
     require_parsed |-> FALSE, ret |-> "LY_SUCCESS", msg |-> "",
     mod |-> NullMod, found |-> NullMod,
     before |-> [i \in ModIds |-> NoMod]]

\* no module was acquired: there is no latest_revision as parsed
Unloaded == -1

NoAcq ==
    [prefer_searchdirs |-> FALSE, disable_searchdirs |-> FALSE,
     imp_clb |-> FALSE, log |-> <<>>, as_parsed |-> Unloaded]

\* the latest_revision of the module the sources delivered, as the parser
\* set it, before lines 800-804
AsParsed(list, c, acquires) ==
    IF ~acquires THEN Unloaded
    ELSE Bind(Acquire([mod |-> NullMod, list |-> list, log |-> <<>>,
                       full |-> FALSE], c), LAMBDA a :
            IF a.mod = NullMod THEN Unloaded
            ELSE a.list[a.mod].latest_revision)

Init ==
    /\ ctx_list \in Contexts
    /\ last = NoCall
    /\ acq = NoAcq
    /\ pmod = NoPmod
    /\ chk = NoChk
    /\ find = NoFind
    /\ env = NoEnv
    /\ call = NoHelp

(***************************************************************************)
(* One call of lysp_load_module(ctx, name, revision, implement,            *)
(* require_parsed, &mod) with *mod = NULL.                                 *)
(***************************************************************************)
LoadModule ==
    /\ last.op = "none"
    /\ \E name \in Names, revision \in Revs \cup {None},
          implement \in BOOLEAN, require_parsed \in BOOLEAN,
          prefer \in BOOLEAN, disable \in BOOLEAN, imp_clb \in BOOLEAN :
       \E found \in OrNull(IF revision # None
                           THEN ly_ctx_get_module(ctx_list, name, revision)
                           ELSE ly_ctx_get_module_latest(ctx_list, name)),
          m \in OrNull(ly_ctx_get_module_implemented(ctx_list, name)) :
       \E acquires \in {Acquires(ctx_list, found, m, implement,
                                  require_parsed)} :
       \E clb \in ClbAnswers(imp_clb /\ acquires, name),
          file \in FileAnswers(disable \/ ~acquires, name) :
       \E compile_ok \in IF implement /\ clb.ok THEN BOOLEAN ELSE {TRUE} :
       \E c \in {[name |-> name, revision |-> revision,
                   implement |-> implement, require_parsed |-> require_parsed,
                   prefer_searchdirs |-> prefer, disable_searchdirs |-> disable,
                   imp_clb |-> imp_clb, clb |-> clb, file |-> file,
                   compile_ok |-> compile_ok]} :
       \E r \in {lysp_load_module(ctx_list, c, found, m)} :
              /\ ~r.full
              /\ ctx_list' = r.list
              /\ last' = [op |-> "lysp_load_module", name |-> name,
                          revision |-> revision, implement |-> implement,
                          require_parsed |-> require_parsed, ret |-> r.ret,
                          msg |-> r.msg, mod |-> r.mod,
                          found |-> found, before |-> ctx_list]
              /\ acq' = [prefer_searchdirs |-> prefer,
                         disable_searchdirs |-> disable, imp_clb |-> imp_clb,
                         log |-> r.log,
                         as_parsed |-> AsParsed(ctx_list, c, acquires)]
              /\ UNCHANGED <<tpdfVars, helpVars>>

Next == LoadModule

Spec == Init /\ [][Next]_vars


(***************************************************************************)
(* Properties of the loader.  last.before is the registry the call found,  *)
(* last.found the module the registry lookup returned for the request.     *)
(***************************************************************************)
Called == last.op = "lysp_load_module"

ImplementedBefore(name) ==
    {i \in InCtx(last.before) :
        last.before[i].name = name /\ last.before[i].implemented = 1}

\* C1: every module name has at most one implemented revision after a call
\* made in a context where that held, and a call with implement set that
\* asks for a revision other than the implemented one of that name returns
\* denied and leaves every implemented flag as it was.
C1_OneImplementedRevision ==
    /\ OneImplemented(ctx_list)
    /\ (Called /\ last.implement /\ last.revision # None
        /\ \E i \in ImplementedBefore(last.name) :
              last.before[i].revision # last.revision)
       => /\ last.ret = "LY_EDENIED"
          /\ last.mod = NullMod
          /\ \A i \in ModIds :
                ctx_list[i].implemented = last.before[i].implemented

C1_Witness ==
    /\ Called /\ last.implement /\ last.ret = "LY_EDENIED"
    /\ \E i \in ImplementedBefore(last.name) :
          last.before[i].revision # last.revision
    /\ \E i \in InCtx(last.before) :
          /\ last.before[i].name = last.name
          /\ last.before[i].revision = last.revision

BeingParsed(i) == last.before[i].parsed /\ last.before[i].parsing

OtherImplemented ==
    \E i \in ImplementedBefore(last.name) : i # last.found

\* C2 as stated: a registry module that is being parsed always makes the
\* call fail with the cycle error and report no module.
C2_CycleErrorAlways ==
    (Called /\ last.found # NullMod /\ BeingParsed(last.found))
    => /\ last.ret = "LY_EVALID"
       /\ last.msg = "circular dependency"
       /\ last.mod = NullMod

\* C2 (amended): a module that was in the registry and is being parsed is
\* never returned; the call reports no module and fails with the cycle
\* error, or with denied when implement is set and another revision of the
\* name is implemented, a check the code makes first.
C2_NoModuleBeingParsed ==
    /\ (Called /\ last.ret = "LY_SUCCESS" /\ last.mod \in InCtx(last.before))
       => ~BeingParsed(last.mod)
    /\ (Called /\ last.found # NullMod /\ BeingParsed(last.found))
       => /\ last.mod = NullMod
          /\ IF last.implement /\ OtherImplemented
             THEN last.ret = "LY_EDENIED"
             ELSE last.ret = "LY_EVALID" /\ last.msg = "circular dependency"

C2_Witness ==
    /\ Called /\ last.found # NullMod /\ BeingParsed(last.found)
    /\ ~last.implement
    /\ last.ret = "LY_EVALID" /\ last.msg = "circular dependency"

Sources(log) == {log[k].src : k \in 1..Len(log)}

FirstSource == IF acq.prefer_searchdirs THEN "file" ELSE "clb"

SecondSource == IF acq.prefer_searchdirs THEN "clb" ELSE "file"

Available(src) ==
    IF src = "clb" THEN acq.imp_clb ELSE ~acq.disable_searchdirs

FoundUsable ==
    last.found # NullMod
    /\ (last.require_parsed => last.before[last.found].parsed)

\* C3: a usable module found in the registry is returned without consulting
\* a source; otherwise the sources are consulted in the order set by
\* prefer-searchdirs, the second only when the first produced no module,
\* each at most once, and the search directories never when disabled.
C3_AcquisitionOrder ==
    Called =>
    /\ FoundUsable =>
          /\ acq.log = <<>>
          /\ last.ret = "LY_SUCCESS" => last.mod = last.found
    /\ Len(acq.log) <= 2
    /\ Len(acq.log) = 2 =>
          /\ acq.log[1].src = FirstSource
          /\ acq.log[2].src = SecondSource
          /\ acq.log[1].out # "ok"
    /\ (Len(acq.log) = 1 /\ Available(FirstSource)) =>
          acq.log[1].src = FirstSource
    /\ (~FoundUsable /\ last.ret # "LY_EDENIED" /\ Available(FirstSource)) =>
          (acq.log # <<>> /\ acq.log[1].src = FirstSource)
    /\ (Len(acq.log) >= 1 /\ acq.log[1].out = "ok") => Len(acq.log) = 1
    /\ \A src \in Sources(acq.log) : Available(src)

C3_Witness ==
    /\ Called /\ acq.prefer_searchdirs /\ Len(acq.log) = 2
    /\ acq.log[1].src = "file" /\ acq.log[1].out = "miss"
    /\ acq.log[2].src = "clb" /\ acq.log[2].out = "ok"
    /\ last.ret = "LY_SUCCESS"

Delivered == {"parse_failed", "check_failed", "compile_failed"}

\* C4: the second source is consulted only after a miss of the first: when
\* the first source delivered data that failed to parse, failed the check
\* or failed to compile, no second source is consulted and the call fails.
C4_SecondSourceOnlyOnMiss ==
    (Called /\ acq.log # <<>> /\ acq.log[1].out \in Delivered)
    => (Len(acq.log) = 1 /\ last.ret # "LY_SUCCESS")

\* C5: a call that fails leaves the registry as it found it, and the only
\* module a call can add is the one it returns: a module whose compilation
\* failed is removed again.
C5_FailedLoadLeavesRegistry ==
    Called =>
    /\ last.ret # "LY_SUCCESS" => ctx_list = last.before
    /\ \A i \in InCtx(ctx_list) : i \in InCtx(last.before) \/ i = last.mod

C5_Witness ==
    /\ Called /\ last.implement /\ last.ret # "LY_SUCCESS"
    /\ \E k \in 1..Len(acq.log) : acq.log[k].out = "compile_failed"
    /\ ctx_list = last.before


(***************************************************************************)
(* The typedef collision checker run on every module of the bounds.        *)
(***************************************************************************)
TNames == {<<"T">>, <<"U">>, <<"i", "n", "t", "8">>}

\* the typedef declarations of a module, in the order of the places that
\* hold them: 1 the module, 2 and 3 its submodules, 4 to 6 the nodes
Decls(names) ==
    {d \in UNION {[1..k -> (1..6) \X names] : k \in 0..MaxTypedefs} :
        \A i \in 1..(Len(d) - 1) : d[i][1] <= d[i + 1][1]}

NamesAt(d, place) ==
    Bind(SelectSeq(d, LAMBDA e : e[1] = place), LAMBDA sel :
        [i \in 1..Len(sel) |-> sel[i][2]])

Pmods(names) ==
    {Pmod(NamesAt(d, 1), <<NamesAt(d, 2), NamesAt(d, 3)>>,
          <<NamesAt(d, 4), NamesAt(d, 5), NamesAt(d, 6)>>,
          <<NoNode, p, 2>>) : d \in Decls(names), p \in {NoNode, 1}}

EmptyCtx == [i \in ModIds |-> NoMod]

InitTpdf ==
    /\ ctx_list = EmptyCtx
    /\ last = NoCall
    /\ acq = NoAcq
    /\ pmod \in Pmods(TNames)
    /\ chk = StartChk(pmod)
    /\ find = NoFind
    /\ env = NoEnv
    /\ call = NoHelp

\* lines 576-587: one top-level typedef
CheckGlobal ==
    /\ chk.pc = "global"
    /\ \E r \in {lysp_check_typedef(pmod, NoNode, TopLevel(pmod), chk.k,
                                    chk.ids_global, chk.ids_scoped)} :
          chk' = [chk EXCEPT
                    !.pc = IF r.ret = "LY_SUCCESS"
                           THEN AfterGlobal(pmod, chk.k, chk.tpdfs_nodes)
                           ELSE "cleanup",
                    !.k = IF r.ret = "LY_SUCCESS" /\ chk.k < Len(TopLevel(pmod))
                          THEN chk.k + 1 ELSE 1,
                    !.ids_global = r.ids_global,
                    !.ids_scoped = r.ids_scoped,
                    !.ok = r.ret = "LY_SUCCESS",
                    !.cur = [node |-> NoNode, u |-> chk.k,
                             name |-> TopLevel(pmod)[chk.k]],
                    !.res = r.ret, !.why = r.why]
    /\ UNCHANGED <<loadVars, pmod, find, helpVars>>

\* lines 588-595: one typedef of a node
CheckScoped ==
    /\ chk.pc = "scoped"
    /\ \E w \in {Scoped(pmod, chk.tpdfs_nodes)[chk.k]} :
       \E r \in {lysp_check_typedef(pmod, w.node,
                                    lysp_node_typedefs(pmod, w.node), w.u,
                                    chk.ids_global, chk.ids_scoped)} :
          chk' = [chk EXCEPT
                    !.pc = IF r.ret = "LY_SUCCESS"
                           THEN AfterScoped(pmod, chk.k, chk.tpdfs_nodes)
                           ELSE IF r.ret = "no return" THEN "looping"
                           ELSE "cleanup",
                    !.k = IF r.ret = "LY_SUCCESS" THEN chk.k + 1 ELSE chk.k,
                    !.ids_global = r.ids_global,
                    !.ids_scoped = r.ids_scoped,
                    !.ok = r.ret = "LY_SUCCESS",
                    !.cur = [node |-> w.node, u |-> w.u,
                             name |-> lysp_node_typedefs(pmod, w.node)[w.u]],
                    !.res = r.ret, !.why = r.why]
    /\ UNCHANGED <<loadVars, pmod, find, helpVars>>

\* line 526: one more turn of the loop over the parents; the loop has no
\* last turn, the turns are counted up to MaxIter and then again from 0
ParentLoop ==
    /\ chk.pc = "looping"
    /\ chk' = [chk EXCEPT !.iter = (chk.iter + 1) % (MaxIter + 1)]
    /\ UNCHANGED <<loadVars, pmod, find, helpVars>>

\* lines 596-602
Cleanup ==
    /\ chk.pc = "cleanup"
    /\ chk' = [chk EXCEPT !.pc = "done",
                          !.ret = IF chk.ok THEN "LY_SUCCESS" ELSE chk.ret,
                          !.ids_global = {}, !.ids_scoped = {},
                          !.tpdfs_nodes = <<>>]
    /\ UNCHANGED <<loadVars, pmod, find, helpVars>>

NextTpdf == CheckGlobal \/ CheckScoped \/ ParentLoop \/ Cleanup

SpecTpdf == InitTpdf /\ [][NextTpdf]_vars


(***************************************************************************)
(* Properties of the typedef collision checker.                            *)
(***************************************************************************)
Checking == chk.pc # "idle"

Finished == chk.pc = "done"

Range(seq) == {seq[i] : i \in 1..Len(seq)}

Repeats(seq) == \E i, j \in 1..Len(seq) : i < j /\ seq[i] = seq[j]

TopDuplicate == Repeats(TopLevel(pmod))

\* C6: lysp_check_typedefs fails whenever two top-level typedefs among the
\* module and its included submodules share a name: no scoped typedef is
\* then looked at and the function returns LY_EVALID; and when it returns
\* LY_SUCCESS the top-level names of the module and its submodules are
\* pairwise distinct.
C6_TopLevelNamesDistinct ==
    Checking =>
        /\ TopDuplicate =>
              /\ chk.pc \notin {"scoped", "looping"}
              /\ Finished => chk.ret = "LY_EVALID"
        /\ (Finished /\ chk.ret = "LY_SUCCESS") =>
              \A i, j \in 1..Len(TopLevel(pmod)) :
                 i # j => TopLevel(pmod)[i] # TopLevel(pmod)[j]

\* the module and its first submodule both define T at the top, and the
\* check has returned
C6_Witness ==
    /\ Finished
    /\ pmod.typedefs = <<<<"T">>>>
    /\ <<"T">> \in Range(pmod.includes[1])
    /\ chk.ret = "LY_EVALID"
    /\ chk.why = "another top-level type"
    /\ chk.cur.name = <<"T">>

ScopedTypedefs ==
    UNION {{[node |-> n, u |-> u] : u \in 1..Len(pmod.nodes[n])} : n \in 1..3}

NameOf(t) == pmod.nodes[t.node][t.u]

ShadowsTopLevel ==
    \E t \in ScopedTypedefs : NameOf(t) \in Range(TopLevel(pmod))

Rejected ==
    /\ chk.pc # "looping"
    /\ Finished => chk.ret # "LY_SUCCESS"

\* C7: lysp_check_typedefs rejects a scoped typedef whose name is the name
\* of a top-level typedef of the module or of one of its submodules: the
\* check of such a module returns, and not with LY_SUCCESS.
C7_ScopedShadowingTopLevelRejected ==
    (Checking /\ ShadowsTopLevel) => Rejected

\* a scoped typedef has just passed the checks of lines 506-533 and the
\* branch of lines 537-543 has decided about it
ReachedTopLevelCheck ==
    /\ chk.pc \in {"scoped", "cleanup"}
    /\ chk.cur.node # NoNode
    /\ chk.res \in {"LY_SUCCESS", "LY_EEXIST"}
    /\ chk.why \notin {"built-in type", "sibling type", "another scoped type"}

RECURSIVE Ancestors(_)
Ancestors(n) ==
    IF pmod.parent[n] = NoNode THEN {}
    ELSE {pmod.parent[n]} \cup Ancestors(pmod.parent[n])

SiblingClashOf(t) == \E v \in 1..(t.u - 1) : pmod.nodes[t.node][v] = NameOf(t)

AncestorClashOf(t) ==
    \E a \in Ancestors(t.node) : NameOf(t) \in Range(pmod.nodes[a])

\* C9: lysp_check_typedefs rejects a scoped typedef that has the name of an
\* earlier typedef of the same node or of a typedef of an ancestor node at
\* any depth, and it reports a sibling or scoped collision only for a
\* typedef that has one.
C9_SiblingAndAncestorClashRejected ==
    Checking =>
        /\ (\E t \in ScopedTypedefs : SiblingClashOf(t) \/ AncestorClashOf(t))
              => Rejected
        /\ chk.why = "sibling type" =>
              SiblingClashOf([node |-> chk.cur.node, u |-> chk.cur.u])
        /\ chk.why = "another scoped type" =>
              AncestorClashOf([node |-> chk.cur.node, u |-> chk.cur.u])

(***************************************************************************)
(* One search for a type from every node of every module of the bounds.    *)
(***************************************************************************)
FNames == {<<"T">>, <<"U">>}

\* the imported module: U and int8 at the top, T in both of its submodules
Imported ==
    Pmod(<<<<"U">>, <<"i", "n", "t", "8">>>>,
         <<<<<<"T">>>>, <<<<"T">>, <<"U">>>>>>,
         <<<<>>, <<>>, <<>>>>, <<NoNode, NoNode, NoNode>>)

Ids ==
    {<<"T">>, <<"U">>, <<"i", "n", "t", "8">>,
     <<"m", ":", "T">>, <<"m", ":", "i", "n", "t", "8">>,
     <<"o", ":", "T">>, <<"o", ":", "U">>, <<"o", ":", "i", "n", "t", "8">>,
     <<"i", "n", "t">>, <<"s", "t", "r", "i", "n", "g">>,
     <<"x", ":", "T">>, <<"m", "o", ":", "T">>, <<":", "T">>}

InitFind ==
    /\ ctx_list = EmptyCtx
    /\ last = NoCall
    /\ acq = NoAcq
    /\ pmod \in Pmods(FNames)
    /\ chk = NoChk
    /\ find = NoFind
    /\ env = NoEnv
    /\ call = NoHelp

TypeFind ==
    /\ find.op = "none"
    /\ \E id \in Ids, start_node \in 0..3 :
       \E registered \in
             IF strchr(id, ":") = NoPos THEN {TRUE} ELSE BOOLEAN :
       \E r \in {lysp_type_find(<<pmod, Imported>>, registered, id,
                                start_node, 1)} :
          find' = [op |-> "lysp_type_find", id |-> id,
                   start_node |-> start_node, registered |-> registered,
                   ret |-> r.ret, type |-> r.type, tpdf |-> r.tpdf,
                   node |-> r.node, module |-> r.module]
    /\ UNCHANGED <<loadVars, pmod, chk, helpVars>>

NextFind == TypeFind

SpecFind == InitFind /\ [][NextFind]_vars


(***************************************************************************)
(* Properties of the search for a type.                                    *)
(***************************************************************************)
FindCalled == find.op = "lysp_type_find"

IdPrefix == SubSeq(find.id, 1, strchr(find.id, ":"))

Prefixed == strchr(find.id, ":") # NoPos

IdName ==
    IF Prefixed THEN From(find.id, strchr(find.id, ":") + 1) ELSE find.id

NotBuiltin ==
    Prefixed \/ lysp_type_str2builtin(find.id, Len(find.id)) = "LY_TYPE_UNKNOWN"

\* the starting node and its parents, nearest first
RECURSIVE Chain(_)
Chain(n) == IF n = NoNode THEN <<>> ELSE <<n>> \o Chain(pmod.parent[n])

First(list, name) ==
    CHOOSE u \in 1..Len(list) :
        list[u] = name /\ \A v \in 1..(u - 1) : list[v] # name

ExpectedMatch(mod) ==
    LET m == <<pmod, Imported>>[mod]
        chain == IF mod = 1 THEN Chain(find.start_node) ELSE <<>>
        declaring == SelectSeq(chain,
                               LAMBDA n : IdName \in Range(pmod.nodes[n]))
        including == {i \in 1..Len(m.includes) :
                         IdName \in Range(m.includes[i])}
    IN  IF declaring # <<>>
        THEN /\ find.ret = "LY_SUCCESS"
             /\ find.node = declaring[1]
             /\ find.tpdf = Tpdf("node", declaring[1],
                                 First(pmod.nodes[declaring[1]], IdName))
        ELSE IF IdName \in Range(m.typedefs)
        THEN /\ find.ret = "LY_SUCCESS"
             /\ find.node = NoNode
             /\ find.tpdf = Tpdf("top", 0, First(m.typedefs, IdName))
        ELSE IF including # {}
        THEN LET i == CHOOSE i \in including : \A j \in including : i <= j
             IN  /\ find.ret = "LY_SUCCESS"
                 /\ find.node = NoNode
                 /\ find.tpdf = Tpdf("include", i, First(m.includes[i], IdName))
        ELSE /\ find.ret = "LY_ENOTFOUND"
             /\ find.node = NoNode

BuiltinTags ==
    {<<<<"b", "i", "n", "a", "r", "y">>, "LY_TYPE_BINARY">>,
     <<<<"b", "i", "t", "s">>, "LY_TYPE_BITS">>,
     <<<<"b", "o", "o", "l", "e", "a", "n">>, "LY_TYPE_BOOL">>,
     <<<<"d", "e", "c", "i", "m", "a", "l", "6", "4">>, "LY_TYPE_DEC64">>,
     <<<<"e", "m", "p", "t", "y">>, "LY_TYPE_EMPTY">>,
     <<<<"e", "n", "u", "m", "e", "r", "a", "t", "i", "o", "n">>, "LY_TYPE_ENUM">>,
     <<<<"i", "n", "t", "8">>, "LY_TYPE_INT8">>,
     <<<<"i", "n", "t", "1", "6">>, "LY_TYPE_INT16">>,
     <<<<"i", "n", "t", "3", "2">>, "LY_TYPE_INT32">>,
     <<<<"i", "n", "t", "6", "4">>, "LY_TYPE_INT64">>,
     <<<<"i", "n", "s", "t", "a", "n", "c", "e", "-", "i", "d", "e", "n", "t", "i", "f", "i", "e", "r">>, "LY_TYPE_INST">>,
     <<<<"i", "d", "e", "n", "t", "i", "t", "y", "r", "e", "f">>, "LY_TYPE_IDENT">>,
     <<<<"l", "e", "a", "f", "r", "e", "f">>, "LY_TYPE_LEAFREF">>,
     <<<<"s", "t", "r", "i", "n", "g">>, "LY_TYPE_STRING">>,
     <<<<"u", "n", "i", "o", "n">>, "LY_TYPE_UNION">>,
     <<<<"u", "i", "n", "t", "8">>, "LY_TYPE_UINT8">>,
     <<<<"u", "i", "n", "t", "1", "6">>, "LY_TYPE_UINT16">>,
     <<<<"u", "i", "n", "t", "3", "2">>, "LY_TYPE_UINT32">>,
     <<<<"u", "i", "n", "t", "6", "4">>, "LY_TYPE_UINT64">>}

TagOf(id) ==
    IF \E b \in BuiltinTags : b[1] = id
    THEN (CHOOSE b \in BuiltinTags : b[1] = id)[2]
    ELSE "LY_TYPE_UNKNOWN"

\* the typedef lysp_type_find reports, by name
ReportedName ==
    LET m == <<pmod, Imported>>[find.module]
    IN  IF find.tpdf.where = "node" THEN pmod.nodes[find.tpdf.at][find.tpdf.u]
        ELSE IF find.tpdf.where = "top" THEN m.typedefs[find.tpdf.u]
        ELSE m.includes[find.tpdf.at][find.tpdf.u]

BuiltinAnswer(module) ==
    /\ find.ret = "LY_SUCCESS"
    /\ find.tpdf = NoMatch
    /\ find.node = NoNode
    /\ find.module = module

PrefixedAnswer ==
    /\ find.type = "LY_TYPE_UNKNOWN"
    /\ find.ret \in {"LY_SUCCESS", "LY_ENOTFOUND"}
    /\ find.ret = "LY_SUCCESS" =>
          /\ find.module # NullMod
          /\ find.tpdf.where \in {"node", "top", "include"}
          /\ ReportedName = IdName

\* C11 as stated: a built-in tag is returned only for an id without prefix
\* that is exactly a built-in name, and then with no typedef and no module;
\* for a prefixed id the tag is unknown and only typedefs are searched.
C11_BuiltinWithoutModule ==
    FindCalled =>
        /\ find.type = (IF Prefixed THEN "LY_TYPE_UNKNOWN" ELSE TagOf(find.id))
        /\ find.type # "LY_TYPE_UNKNOWN" => BuiltinAnswer(NullMod)
        /\ Prefixed => PrefixedAnswer

\* C11: a built-in tag is returned only for an id without prefix that is
\* exactly a built-in name, and then with no typedef, no defining node and
\* the starting module as the module; for a prefixed id the tag is unknown
\* and the name after the prefix is searched among the typedefs only.
C11_BuiltinOnlyUnprefixed ==
    FindCalled =>
        /\ find.type = (IF Prefixed THEN "LY_TYPE_UNKNOWN" ELSE TagOf(find.id))
        /\ find.type # "LY_TYPE_UNKNOWN" => BuiltinAnswer(1)
        /\ Prefixed => PrefixedAnswer

\* o:int8 is resolved to the typedef int8 of the imported module
C11_Witness ==
    /\ FindCalled
    /\ find.id = <<"o", ":", "i", "n", "t", "8">>
    /\ find.ret = "LY_SUCCESS"
    /\ find.type = "LY_TYPE_UNKNOWN"
    /\ find.module = 2
    /\ find.tpdf = Tpdf("top", 0, 2)


(***************************************************************************)
(* Prefix resolution: lysp_module_find_prefix, lysc_module_find_prefix     *)
(* and lys_module_find_prefix on module 1, which imports modules 2 and 3.  *)
(* A module has a parsed facet, a compiled facet or both.                  *)
(***************************************************************************)
Facets == {"both", "parsed", "compiled"}

HasFacet(f, which) == f = "both" \/ f = which

PrefixEnv(own, imports, facets) ==
    [kind |-> "prefix", own |-> own, imports |-> imports, facets |-> facets]

Pointer(module, facet) == [module |-> module, facet |-> facet]

NullPtr == Pointer(NullMod, "NULL")

NotCalled == Pointer(NullMod, "not called")

\* lines 916 and 926: m ? m->compiled : NULL, m ? m->parsed : NULL
FacetOf(e, m, which) ==
    IF m # NullMod /\ HasFacet(e.facets[m], which)
    THEN Pointer(m, which) ELSE NullPtr

\* lines 921-929 on the parsed facet of module 1
lysp_find_prefix(e, registered, prefix, len) ==
    FacetOf(e, FIND_MODULE(e.own, e.imports, 1, registered, prefix, len),
            "parsed")

\* lines 910-918 on the compiled facet of module 1
lysc_find_prefix(e, registered, prefix, len) ==
    FacetOf(e, FIND_MODULE(e.own, e.imports, 1, registered, prefix, len),
            "compiled")

\* lines 931-939: the compiled imports when the module is compiled, the
\* parsed ones otherwise; both hold the same imports
lys_find_prefix(e, registered, prefix, len) ==
    Bind(FIND_MODULE(e.own, e.imports, 1, registered, prefix, len), LAMBDA m :
        IF m # NullMod THEN Pointer(m, "module") ELSE NullPtr)

OwnPrefixes == {<<"a">>, <<"a", "b">>}

ImportPrefixes == {<<"a">>, <<"a", "b">>, <<"b">>}

PrefixEnvs ==
    {PrefixEnv(own, imports, facets) :
        own \in OwnPrefixes,
        imports \in UNION {[1..k -> {Import(p, m) : p \in ImportPrefixes,
                                                    m \in {2, 3}}] :
                             k \in 0..MaxImports},
        facets \in [1..3 -> Facets]}

\* the bytes a prefix is read from, and the lengths it is read with
PrefixBytes ==
    {<<<<"a", "b", ":", "x">>, len>> : len \in 0..3}
        \cup {<<<<"b", ":", "x">>, 1>>}

InitPrefix ==
    /\ ctx_list = EmptyCtx
    /\ last = NoCall
    /\ acq = NoAcq
    /\ pmod = NoPmod
    /\ chk = NoChk
    /\ find = NoFind
    /\ env \in PrefixEnvs
    /\ call = NoHelp

FindPrefix ==
    /\ call.op = "none"
    /\ \E b \in PrefixBytes, registered \in BOOLEAN :
          call' = [op |-> "find_prefix", prefix |-> b[1], len |-> b[2],
                   registered |-> registered,
                   lysp |-> IF HasFacet(env.facets[1], "parsed")
                            THEN lysp_find_prefix(env, registered, b[1], b[2])
                            ELSE NotCalled,
                   lysc |-> IF HasFacet(env.facets[1], "compiled")
                            THEN lysc_find_prefix(env, registered, b[1], b[2])
                            ELSE NotCalled,
                   lys |-> lys_find_prefix(env, registered, b[1], b[2])]
    /\ UNCHANGED <<loadVars, tpdfVars, env>>

NextPrefix == FindPrefix

SpecPrefix == InitPrefix /\ [][NextPrefix]_vars

PrefixCalled == call.op = "find_prefix"

GivenPrefix == SubSeq(call.prefix, 1, call.len)

ImportsNamed(p) == {i \in 1..Len(env.imports) : env.imports[i].prefix = p}

FirstImport(p) ==
    IF ImportsNamed(p) = {} THEN NullMod
    ELSE env.imports[CHOOSE i \in ImportsNamed(p) :
                        \A j \in ImportsNamed(p) : i <= j].module

\* C12 as stated: the result is the module itself when the bytes are its own
\* prefix in full, otherwise the module of the first import with exactly
\* that prefix, otherwise none; and the variants agree.
C12_PrefixResolvesToModule ==
    PrefixCalled =>
        LET expected == IF GivenPrefix = env.own THEN 1
                        ELSE FirstImport(GivenPrefix)
        IN  /\ call.lys.module = expected
            /\ call.lysp # NotCalled => call.lysp.module = expected
            /\ call.lysc # NotCalled => call.lysc.module = expected

\* the module FIND_MODULE selects: the module itself as the context finds it
\* when the bytes are its own prefix, else the first import with the prefix
Selected ==
    IF GivenPrefix = env.own /\ call.registered THEN 1
    ELSE FirstImport(GivenPrefix)

\* C12: the three functions select the same module: module 1 itself when the
\* bytes are its own prefix in full and the context finds it by name and
\* revision, otherwise the module of the first import whose prefix is those
\* bytes in full, otherwise none; lys_module_find_prefix returns that
\* module, the parsed and the compiled variant return its parsed and its
\* compiled facet, which is none when the module does not have it.
C12_PrefixSelectsModule ==
    PrefixCalled =>
        /\ call.lys = (IF Selected = NullMod THEN NullPtr
                       ELSE Pointer(Selected, "module"))
        /\ call.lysp # NotCalled =>
              call.lysp = (IF Selected # NullMod
                              /\ HasFacet(env.facets[Selected], "parsed")
                           THEN Pointer(Selected, "parsed") ELSE NullPtr)
        /\ call.lysc # NotCalled =>
              call.lysc = (IF Selected # NullMod
                              /\ HasFacet(env.facets[Selected], "compiled")
                           THEN Pointer(Selected, "compiled") ELSE NullPtr)

\* the prefix a of the bytes "ab:x" is given: the import ab, declared
\* first, is passed over and the import a, declared second, is found by
\* both variants
C12_Witness ==
    /\ PrefixCalled
    /\ call.len = 1
    /\ env.own = <<"a", "b">>
    /\ Len(env.imports) = 2
    /\ env.imports[1] = Import(<<"a", "b">>, 2)
    /\ env.imports[2] = Import(<<"a">>, 3)
    /\ call.lysp = Pointer(3, "parsed")
    /\ call.lysc = Pointer(3, "compiled")


(***************************************************************************)
(* Identifiers and node identifiers: lys_parse_id, lys_parse_nodeid.  A    *)
(* pointer into a string is an offset, NoPos for NULL.                     *)
(***************************************************************************)
Letters == {"a", "b", "c", "d", "i", "m", "n", "o", "p", "q", "t", "u", "x"}

Digits == {"1"}

is_yangidentstartchar(c) == c \in Letters \cup {"_"}

is_yangidentchar(c) == c \in Letters \cup Digits \cup {"_", "-", "."}

\* lines 50-52: the first offset from i on that holds no identifier character
RECURSIVE SkipIdent(_, _)
SkipIdent(str, i) ==
    IF is_yangidentchar(At(str, i)) THEN SkipIdent(str, i + 1) ELSE i

\* lines 40-54
lys_parse_id(str, id) ==
    IF ~is_yangidentstartchar(At(str, id))
    THEN [ret |-> "LY_EINVAL", id |-> id]
    ELSE [ret |-> "LY_SUCCESS", id |-> SkipIdent(str, id + 1)]

Nodeid(ret, id, prefix, prefix_len, name, name_len) ==
    [ret |-> ret, id |-> id, prefix |-> prefix, prefix_len |-> prefix_len,
     name |-> name, name_len |-> name_len]

\* line 67: if (**id == ':')
HasPrefix_never(str, id) == FALSE

HasPrefix(str, id) == At(str, id) = ":"

\* lines 56-85
lys_parse_nodeid(str, id) ==
    Bind(lys_parse_id(str, id), LAMBDA first :
        IF first.ret # "LY_SUCCESS"
        THEN Nodeid(first.ret, first.id, id, 0, NoPos, 0)
        ELSE IF HasPrefix(str, first.id)
        THEN Bind(lys_parse_id(str, first.id + 1), LAMBDA second :
                IF second.ret # "LY_SUCCESS"
                THEN Nodeid(second.ret, second.id, id, first.id - id,
                            first.id + 1, 0)
                ELSE Nodeid("LY_SUCCESS", second.id, id, first.id - id,
                            first.id + 1, second.id - (first.id + 1)))
        ELSE Nodeid("LY_SUCCESS", first.id, NoPos, 0, id, first.id - id))

(***************************************************************************)
(* The compiled schema lys_resolve_schema_nodeid walks: module 1 with the   *)
(* prefix m holds container c with leaf a, notification n and action d;    *)
(* the input of d holds the leaves a and in, its output the leaf b.        *)
(***************************************************************************)
Snode(name, nodetype, parent, branch) ==
    [name |-> name, nodetype |-> nodetype, parent |-> parent,
     branch |-> branch]

LYS_CONTAINER == {"container"}
LYS_LEAF == {"leaf"}
LYS_ACTION == {"action"}
LYS_NOTIF == {"notif"}
LYS_INOUT == {"input", "output"}

Schema ==
    <<Snode(<<"c">>, LYS_CONTAINER, NoNode, "child"),
      Snode(<<"a">>, LYS_LEAF, 1, "child"),
      Snode(<<"d">>, LYS_ACTION, 1, "child"),
      Snode(<<"a">>, LYS_LEAF, 3, "input"),
      Snode(<<"b">>, LYS_LEAF, 3, "output"),
      Snode(<<"i", "n">>, LYS_LEAF, 3, "input"),
      Snode(<<"n">>, LYS_NOTIF, 1, "child")>>

\* the context module: prefix m, one import with the prefix q
ContextModule == PrefixEnv(<<"m">>, <<Import(<<"q">>, 2)>>, <<"both", "both", "both">>)

\* lys_child(parent, module, name, name_len, 0, options): the child of the
\* parent, or the top-level node of the module, with that name; the children
\* of an action are those of its input, with LYS_GETNEXT_OUTPUT those of its
\* output
lys_child(parent, mod, str, name, name_len, output) ==
    Bind({i \in 1..Len(Schema) :
            /\ mod = 1
            /\ Schema[i].parent = parent
            /\ Schema[i].name = SubSeq(str, name + 1, name + name_len)
            /\ Schema[i].branch =
                  (IF parent # NoNode /\ Schema[parent].nodetype = LYS_ACTION
                   THEN IF output THEN "output" ELSE "input"
                   ELSE "child")}, LAMBDA found :
        IF found = {} THEN NoNode ELSE CHOOSE i \in found : TRUE)

\* line 149 and 151: !strncmp("input", name, name_len)
NamesKeyword_exact(keyword, str, name, name_len) ==
    keyword = SubSeq(str, name + 1, name + name_len)

NamesKeyword(keyword, str, name, name_len) ==
    StrnEq(keyword, 0, str, name, name_len)

Resolved(ret, msg, target, result_flag, implemented) ==
    [ret |-> ret, msg |-> msg, target |-> target,
     result_flag |-> result_flag, implemented |-> implemented]

\* lines 186-200: after the loop; st holds the locals
AfterLoop(st, nodetype) ==
    IF st.ret = "LY_SUCCESS"
    THEN IF nodetype # {} /\ st.current_nodetype \cap nodetype = {}
         THEN Resolved("LY_EDENIED", "", st.context_node, st.result_flag,
                       st.implemented)
         ELSE Resolved("LY_SUCCESS", "", st.context_node, st.result_flag,
                       st.implemented)
    ELSE Resolved(st.ret, "unexpected end of expression", NoNode,
                  st.result_flag, st.implemented)

\* lines 174-184: the end of the body of the loop; TRUE when the loop ends
AtEnd(str, nodeid_len, id) ==
    At(str, id) = NUL \/ (nodeid_len # 0 /\ id >= nodeid_len)

\* lines 130-185: the loop over the segments
RECURSIVE Segments(_, _, _, _, _, _)
Segments(str, nodeid_len, registered, nodetype, implement, st) ==
    IF At(str, st.id) = NUL THEN AfterLoop(st, nodetype)
    ELSE Bind(lys_parse_nodeid(str, st.id), LAMBDA nid :
    IF nid.ret # "LY_SUCCESS"
    THEN AfterLoop([st EXCEPT !.ret = nid.ret], nodetype)
    ELSE Bind(IF nid.prefix # NoPos
              THEN lys_find_prefix(ContextModule, registered,
                                   From(str, nid.prefix), nid.prefix_len).module
              ELSE 1, LAMBDA mod :
    IF mod = NullMod
    THEN Resolved("LY_ENOTFOUND", "prefix not defined", NoNode,
                  st.result_flag, st.implemented)
    ELSE Bind([st EXCEPT !.ret = "LY_SUCCESS", !.id = nid.id,
                         !.implemented = @ \cup (IF implement THEN {mod}
                                                 ELSE {})], LAMBDA s1 :
    Bind(IF st.context_node # NoNode
            /\ Schema[st.context_node].nodetype = LYS_ACTION
            /\ NamesKeyword(<<"i", "n", "p", "u", "t">>, str, nid.name,
                            nid.name_len)
         THEN [s1 EXCEPT !.result_flag = @ \cup {"LYSC_OPT_RPC_INPUT"},
                         !.current_nodetype = LYS_INOUT]
         ELSE IF st.context_node # NoNode
            /\ Schema[st.context_node].nodetype = LYS_ACTION
            /\ NamesKeyword(<<"o", "u", "t", "p", "u", "t">>, str, nid.name,
                            nid.name_len)
         THEN [s1 EXCEPT !.result_flag = @ \cup {"LYSC_OPT_RPC_OUTPUT"},
                         !.getnext_output = TRUE,
                         !.current_nodetype = LYS_INOUT]
         ELSE Bind(lys_child(st.context_node, mod, str, nid.name,
                             nid.name_len, st.getnext_output), LAMBDA child :
                IF child = NoNode
                THEN [s1 EXCEPT !.context_node = NoNode, !.ret = "LY_ENOTFOUND"]
                ELSE [s1 EXCEPT
                        !.context_node = child,
                        !.getnext_output = FALSE,
                        !.current_nodetype = Schema[child].nodetype,
                        !.result_flag =
                            @ \cup (IF Schema[child].nodetype = LYS_NOTIF
                                    THEN {"LYSC_OPT_NOTIFICATION"} ELSE {})]),
         LAMBDA s2 :
    IF s2.ret = "LY_ENOTFOUND"
    THEN Resolved("LY_ENOTFOUND", "target node not found", NoNode,
                  s2.result_flag, s2.implemented)
    ELSE IF AtEnd(str, nodeid_len, s2.id) THEN AfterLoop(s2, nodetype)
    ELSE IF At(str, s2.id) # "/"
    THEN Resolved("LY_EVALID", "missing separator", NoNode, s2.result_flag,
                  s2.implemented)
    ELSE Segments(str, nodeid_len, registered, nodetype, implement,
                  [s2 EXCEPT !.id = @ + 1])))))

Locals(id, context_node) ==
    [ret |-> "LY_EVALID", id |-> id, context_node |-> context_node,
     result_flag |-> {}, getnext_output |-> FALSE, current_nodetype |-> {},
     implemented |-> {}]

\* lines 87-201
lys_resolve_schema_nodeid(str, nodeid_len, context_node, registered, nodetype, implement) ==
    IF context_node # NoNode
    THEN IF At(str, 0) = "/"
         THEN Resolved("LY_EVALID", "absolute-schema-nodeid used", NoNode, {},
                       {})
         ELSE Segments(str, nodeid_len, registered, nodetype, implement,
                       Locals(0, context_node))
    ELSE IF At(str, 0) # "/"
         THEN Resolved("LY_EVALID", "missing starting /", NoNode, {}, {})
         ELSE Segments(str, nodeid_len, registered, nodetype, implement,
                       Locals(1, context_node))

(***************************************************************************)
(* lys_resolve_schema_nodeid on every node identifier of the bounds: up to  *)
(* three segments, with or without a leading and a trailing separator.     *)
(***************************************************************************)
SegmentTexts ==
    {<<"a">>,
     <<"b">>,
     <<"c">>,
     <<"d">>,
     <<"n">>,
     <<"i", "n", "p", "u", "t">>,
     <<"o", "u", "t", "p", "u", "t">>,
     <<"i", "n">>,
     <<"o", "u", "t">>,
     <<"i", "n", "p", "u", "t", "x">>,
     <<"m", ":", "a">>,
     <<"q", ":", "a">>,
     <<"1", "a">>}

RECURSIVE Join(_, _)
Join(segs, sep) ==
    IF segs = <<>> THEN <<>>
    ELSE IF Len(segs) = 1 THEN segs[1]
    ELSE segs[1] \o sep \o Join(Tail(segs), sep)

Nodeids ==
    {t \in {lead \o Join(segs, sep) \o trail :
                lead \in {<<>>, <<"/">>}, trail \in {<<>>, <<"/">>},
                sep \in {<<"/">>, <<"?">>},
                segs \in UNION {[1..k -> SegmentTexts] : k \in 0..3}} :
        Len(t) <= MaxNodeidLen}

NodeidEnv(nodeid) == [kind |-> "nodeid", nodeid |-> nodeid]

InitNodeid ==
    /\ ctx_list = EmptyCtx
    /\ last = NoCall
    /\ acq = NoAcq
    /\ pmod = NoPmod
    /\ chk = NoChk
    /\ find = NoFind
    /\ env \in {NodeidEnv(t) : t \in Nodeids}
    /\ call = NoHelp

\* the text that follows the node identifier when nodeid_len is given
Following == <<"/", "b">>

ResolveNodeid ==
    /\ call.op = "none"
    /\ \E context_node \in {NoNode, 1, 3},
          nodetype \in {{}, LYS_LEAF, LYS_INOUT},
          implement \in BOOLEAN,
          bounded \in IF env.nodeid = <<>> THEN {FALSE} ELSE BOOLEAN,
          registered \in IF \E i \in 1..Len(env.nodeid) : env.nodeid[i] = ":"
                         THEN BOOLEAN ELSE {TRUE} :
       \E r \in {lys_resolve_schema_nodeid(
                    IF bounded THEN env.nodeid \o Following ELSE env.nodeid,
                    IF bounded THEN Len(env.nodeid) ELSE 0,
                    context_node, registered, nodetype, implement)} :
          call' = [op |-> "lys_resolve_schema_nodeid",
                   context_node |-> context_node, nodetype |-> nodetype,
                   implement |-> implement, bounded |-> bounded,
                   registered |-> registered, ret |-> r.ret, msg |-> r.msg,
                   target |-> r.target, result_flag |-> r.result_flag,
                   implemented |-> r.implemented]
    /\ UNCHANGED <<loadVars, tpdfVars, env>>

NextNodeid == ResolveNodeid

SpecNodeid == InitNodeid /\ [][NextNodeid]_vars

(***************************************************************************)
(* Properties of lys_resolve_schema_nodeid.  Expected is the walk the text  *)
(* of a node identifier denotes: its segments are the pieces between the   *)
(* separators, each resolved from the node the previous one gave.          *)
(***************************************************************************)
ResolveCalled == call.op = "lys_resolve_schema_nodeid"

\* the pieces of a text between its "/" characters
RECURSIVE Pieces(_)
Pieces(t) ==
    IF \E i \in 1..Len(t) : t[i] = "/"
    THEN LET i == CHOOSE i \in 1..Len(t) :
                    t[i] = "/" /\ \A j \in 1..(i - 1) : t[j] # "/"
         IN  <<SubSeq(t, 1, i - 1)>> \o Pieces(SubSeq(t, i + 1, Len(t)))
    ELSE <<t>>

IsIdent(w) ==
    /\ w # <<>>
    /\ is_yangidentstartchar(w[1])
    /\ \A i \in 2..Len(w) : is_yangidentchar(w[i])

IsSegment(w) ==
    \/ IsIdent(w)
    \/ \E k \in 1..Len(w) :
          /\ w[k] = ":"
          /\ IsIdent(SubSeq(w, 1, k - 1))
          /\ IsIdent(SubSeq(w, k + 1, Len(w)))

\* the segments of a node identifier, <<>> when it is not well formed
SegmentsOf(t, context_node) ==
    IF context_node = NoNode
    THEN IF t # <<>> /\ t[1] = "/" /\ \A i \in 1..Len(Pieces(Tail(t))) :
                                          IsSegment(Pieces(Tail(t))[i])
         THEN Pieces(Tail(t)) ELSE <<>>
    ELSE IF \A i \in 1..Len(Pieces(t)) : IsSegment(Pieces(t)[i])
         THEN Pieces(t) ELSE <<>>

WellFormedNodeid == SegmentsOf(env.nodeid, call.context_node) # <<>>

PrefixOfSegment(w) ==
    IF \E k \in 1..Len(w) : w[k] = ":"
    THEN SubSeq(w, 1, (CHOOSE k \in 1..Len(w) : w[k] = ":") - 1)
    ELSE <<>>

NameOfSegment(w) ==
    IF \E k \in 1..Len(w) : w[k] = ":"
    THEN SubSeq(w, (CHOOSE k \in 1..Len(w) : w[k] = ":") + 1, Len(w))
    ELSE w

ChildNamed(parent, branch, name) ==
    LET found == {i \in 1..Len(Schema) :
                    /\ Schema[i].parent = parent
                    /\ Schema[i].branch = branch
                    /\ Schema[i].name = name}
    IN  IF found = {} THEN NoNode ELSE CHOOSE i \in found : TRUE

Walk(ok, node, type, flags, output) ==
    [ok |-> ok, node |-> node, type |-> type, flags |-> flags,
     output |-> output]

ExpectedStep(w, seg) ==
    LET name == NameOfSegment(seg)
        inAction == w.node # NoNode /\ Schema[w.node].nodetype = LYS_ACTION
        child == ChildNamed(w.node,
                            IF inAction
                            THEN IF w.output THEN "output" ELSE "input"
                            ELSE "child", name)
    IN  IF ~w.ok THEN w
        ELSE IF PrefixOfSegment(seg) \notin {<<>>, <<"m">>}
        THEN Walk(FALSE, NoNode, {}, w.flags, FALSE)
        ELSE IF inAction /\ name = <<"i", "n", "p", "u", "t">>
        THEN Walk(TRUE, w.node, LYS_INOUT,
                  w.flags \cup {"LYSC_OPT_RPC_INPUT"}, FALSE)
        ELSE IF inAction /\ name = <<"o", "u", "t", "p", "u", "t">>
        THEN Walk(TRUE, w.node, LYS_INOUT,
                  w.flags \cup {"LYSC_OPT_RPC_OUTPUT"}, TRUE)
        ELSE IF child = NoNode THEN Walk(FALSE, NoNode, {}, w.flags, FALSE)
        ELSE Walk(TRUE, child, Schema[child].nodetype, w.flags, FALSE)

RECURSIVE ExpectedWalk(_, _)
ExpectedWalk(w, segs) ==
    IF segs = <<>> THEN w
    ELSE ExpectedWalk(ExpectedStep(w, Head(segs)), Tail(segs))

Expected ==
    ExpectedWalk(Walk(TRUE, call.context_node, {}, {}, FALSE),
                 SegmentsOf(env.nodeid, call.context_node))

RpcFlags == {"LYSC_OPT_RPC_INPUT", "LYSC_OPT_RPC_OUTPUT"}

\* a call on a whole string, the context module being found by its prefix
Plain == ResolveCalled /\ ~call.bounded /\ call.registered

\* C13: from an action, a segment sets rpc-input exactly when it is "input"
\* and rpc-output exactly when it is "output", without a lookup; every other
\* name is looked up among the children of the input, and after "output"
\* among those of the output.
C13_InputOutputExact ==
    (Plain /\ call.context_node = 3 /\ WellFormedNodeid) =>
        /\ Expected.ok =>
              /\ call.ret \in {"LY_SUCCESS", "LY_EDENIED"}
              /\ call.target = Expected.node
              /\ call.result_flag \cap RpcFlags = Expected.flags
        /\ ~Expected.ok => call.ret = "LY_ENOTFOUND"

\* C14: a node identifier that is not well formed, or that names a node that
\* does not exist, is never resolved with LY_SUCCESS.
C14_InvalidNeverSucceeds ==
    (Plain /\ (~WellFormedNodeid \/ ~Expected.ok)) => call.ret # "LY_SUCCESS"

Mismatch == call.nodetype # {} /\ Expected.type \cap call.nodetype = {}

\* C15: LY_EDENIED is returned exactly when every segment was resolved, the
\* mask is not zero and the type of the final node has no bit in it; with a
\* zero mask or a matching type the result is LY_SUCCESS and the final node.
C15_DeniedExactly ==
    (Plain /\ WellFormedNodeid) =>
        /\ call.ret = "LY_EDENIED" <=> (Expected.ok /\ Mismatch)
        /\ (Expected.ok /\ ~Mismatch) =>
              call.ret = "LY_SUCCESS" /\ call.target = Expected.node

(***************************************************************************)
(* lys_parse_nodeid on a prefix and a name joined, or on a name alone,      *)
(* followed by text that belongs to neither.                               *)
(***************************************************************************)
IdentChars == {"a", "_", "1", "-", "."}

Idents ==
    {w \in UNION {[1..k -> IdentChars] : k \in 1..MaxIdLen} : IsIdent(w)}

SplitEnv(prefix, name, rest) ==
    [kind |-> "split", prefix |-> prefix, name |-> name, rest |-> rest,
     text |-> (IF prefix = <<>> THEN name ELSE prefix \o <<":">> \o name)
                 \o rest]

InitSplit ==
    /\ ctx_list = EmptyCtx
    /\ last = NoCall
    /\ acq = NoAcq
    /\ pmod = NoPmod
    /\ chk = NoChk
    /\ find = NoFind
    /\ env \in {SplitEnv(prefix, name, rest) :
                  prefix \in Idents \cup {<<>>}, name \in Idents,
                  rest \in {<<>>, <<"/">>, <<" ", "a">>}}
    /\ call = NoHelp

ParseNodeid ==
    /\ call.op = "none"
    /\ \E r \in {lys_parse_nodeid(env.text, 0)} :
          call' = [op |-> "lys_parse_nodeid", ret |-> r.ret, id |-> r.id,
                   prefix |-> r.prefix, prefix_len |-> r.prefix_len,
                   name |-> r.name, name_len |-> r.name_len]
    /\ UNCHANGED <<loadVars, tpdfVars, env>>

NextSplit == ParseNodeid

SpecSplit == InitSplit /\ [][NextSplit]_vars

SplitCalled == call.op = "lys_parse_nodeid"

\* the n bytes of the text the pointer p points to
Bytes(p, n) == SubSeq(env.text, p + 1, p + n)

\* C20: lys_parse_nodeid on "p:n" returns the prefix p with the length |p|
\* and the name n with the length |n|; on "n" alone it returns no prefix, the
\* prefix length 0 and the name n with the length |n|; in both cases id is
\* left behind the name.
C20_NodeidSplitRoundTrip ==
    SplitCalled =>
        /\ call.ret = "LY_SUCCESS"
        /\ call.name # NoPos
        /\ call.name_len = Len(env.name)
        /\ Bytes(call.name, call.name_len) = env.name
        /\ call.id = call.name + call.name_len
        /\ Bytes(call.id, Len(env.rest)) = env.rest
        /\ IF env.prefix = <<>>
           THEN call.prefix = NoPos /\ call.prefix_len = 0
           ELSE /\ call.prefix # NoPos
                /\ call.prefix_len = Len(env.prefix)
                /\ Bytes(call.prefix, call.prefix_len) = env.prefix

\* "a1:_." followed by a separator is split into a1 and _.
C20_Witness ==
    /\ SplitCalled
    /\ env.text = <<"a", "1", ":", "_", ".", "/">>
    /\ call.prefix = 0
    /\ call.prefix_len = 2
    /\ call.name = 3
    /\ call.name_len = 2

(***************************************************************************)
(* lysc_check_status.  Flags are 16-bit words; the status is kept in the   *)
(* bits of LYS_STATUS_MASK.                                                *)
(***************************************************************************)
LYS_STATUS_CURR == 8
LYS_STATUS_DEPRC == 16
LYS_STATUS_OBSLT == 32
LYS_STATUS_MASK == 56

\* a & b
RECURSIVE BitAnd(_, _)
BitAnd(a, b) ==
    IF a = 0 \/ b = 0 THEN 0
    ELSE (a % 2) * (b % 2) + 2 * BitAnd(a \div 2, b \div 2)

\* lines 230-231
StatusBits_raw(flags) == BitAnd(flags, LYS_STATUS_MASK)

StatusBits(flags) ==
    IF BitAnd(flags, LYS_STATUS_MASK) # 0
    THEN BitAnd(flags, LYS_STATUS_MASK) ELSE LYS_STATUS_CURR

\* lines 223-244
lysc_check_status(ctx, flags1, mod1, flags2, mod2) ==
    IF StatusBits(flags1) < StatusBits(flags2) /\ mod1 = mod2
    THEN [ret |-> "LY_EVALID", logged |-> ctx]
    ELSE [ret |-> "LY_SUCCESS", logged |-> FALSE]

\* flags of definitions: no status or one status, with other bits or without
StatusFlags ==
    {st + other : st \in {0, LYS_STATUS_CURR, LYS_STATUS_DEPRC,
                          LYS_STATUS_OBSLT},
                  other \in {0, 1, 64, 65}}

StatusEnv(flags1, mod1, flags2, mod2) ==
    [kind |-> "status", flags1 |-> flags1, mod1 |-> mod1, flags2 |-> flags2,
     mod2 |-> mod2]

InitStatus ==
    /\ ctx_list = EmptyCtx
    /\ last = NoCall
    /\ acq = NoAcq
    /\ pmod = NoPmod
    /\ chk = NoChk
    /\ find = NoFind
    /\ env \in {StatusEnv(flags1, mod1, flags2, mod2) :
                  flags1 \in StatusFlags, flags2 \in StatusFlags,
                  mod1 \in {1, 2}, mod2 \in {1, 2}}
    /\ call = NoHelp

CheckStatus ==
    /\ call.op = "none"
    /\ \E ctx \in BOOLEAN :
       \E r \in {lysc_check_status(ctx, env.flags1, env.mod1, env.flags2,
                                   env.mod2)} :
          call' = [op |-> "lysc_check_status", ctx |-> ctx, ret |-> r.ret,
                   logged |-> r.logged]
    /\ UNCHANGED <<loadVars, tpdfVars, env>>

NextStatus == CheckStatus

SpecStatus == InitStatus /\ [][NextStatus]_vars

StatusCalled == call.op = "lysc_check_status"

\* the status flags declare: 0 current, 1 deprecated, 2 obsolete
Rank(flags) ==
    IF (flags \div LYS_STATUS_OBSLT) % 2 = 1 THEN 2
    ELSE IF (flags \div LYS_STATUS_DEPRC) % 2 = 1 THEN 1
    ELSE 0

\* C16: lysc_check_status returns LY_EVALID exactly when both definitions
\* are of the same module and the status of the second, the referent, is
\* greater than the status of the first in the order current < deprecated <
\* obsolete, flags without a status counting as current; the result is the
\* same with and without a compile context.
C16_StatusRule ==
    StatusCalled =>
        (call.ret = "LY_EVALID" <=>
            (env.mod1 = env.mod2 /\ Rank(env.flags2) > Rank(env.flags1)))
        /\ call.ret \in {"LY_EVALID", "LY_SUCCESS"}

\* a definition without status refers to a deprecated one of its own
\* module, no compile context being given
C16_Witness ==
    /\ StatusCalled
    /\ ~call.ctx
    /\ env.flags1 = 1
    /\ env.flags2 = LYS_STATUS_DEPRC + 64
    /\ env.mod1 = env.mod2
    /\ call.ret = "LY_EVALID"

(***************************************************************************)
(* lysp_load_module_check with the file path: the return value is that of  *)
(* lysp_load_module_check above; here are the warnings about the path and  *)
(* the read of revs[0].date made for the message of line 630.              *)
(***************************************************************************)
\* the characters of a name of one character and of a revision date
NameChars(name) == <<name>>

DateChars(date) ==
    IF date = "2019-01-01" THEN <<"2", "0", "1", "9", "-", "0", "1", "-", "0", "1">>
    ELSE <<"2", "0", "2", "0", "-", "0", "1", "-", "0", "1">>

\* strrchr(str, c): the offset of the last c in str, NoPos for NULL
strrchr(str, c) ==
    IF \E i \in 0..(Len(str) - 1) : At(str, i) = c
    THEN CHOOSE i \in 0..(Len(str) - 1) :
            /\ At(str, i) = c
            /\ \A j \in (i + 1)..(Len(str) - 1) : At(str, j) # c
    ELSE NoPos

\* lines 652-657
Filename(path) ==
    IF strrchr(path, "/") = NoPos THEN 0 ELSE strrchr(path, "/") + 1

\* line 660: rev = strchr(filename, '@')
RevAt(path) ==
    IF strchr(From(path, Filename(path)), "@") = NoPos THEN NoPos
    ELSE Filename(path) + strchr(From(path, Filename(path)), "@")

\* lines 659-665: the file name does not match the module name
NameWarning(path, name) ==
    \/ ~StrnEq(path, Filename(path), name, 0, Len(name))
    \/ RevAt(path) # NoPos /\ RevAt(path) # Filename(path) + Len(name)
    \/ RevAt(path) = NoPos
          /\ strrchr(path, ".") # Filename(path) + Len(name)

\* lines 667-673: the file name does not match the module revision
RevisionWarning(path, revs) ==
    /\ RevAt(path) # NoPos
    /\ \/ revs = <<>>
       \/ strrchr(path, ".") - (RevAt(path) + 1) # 10
       \/ ~StrnEq(DateChars(revs[1]), 0, path, RevAt(path) + 1, 10)

\* lines 650-675
PathWarnings(unit, info) ==
    IF info.path = <<>> THEN {}
    ELSE (IF NameWarning(info.path, NameChars(unit.name))
          THEN {"name"} ELSE {})
         \cup (IF RevisionWarning(info.path, unit.revs)
               THEN {"revision"} ELSE {})

\* lines 630-631: the message is given revs[0].date although revs is NULL
ReadsNullRevs(unit, info) ==
    /\ info.name = None \/ info.name = unit.name
    /\ info.revision # None
    /\ unit.revs = <<>>

Checked(returned, ret, warnings) ==
    [returned |-> returned, ret |-> ret, warnings |-> warnings]

\* lines 612-679: what a call can do
CheckOutcomes(unit, info) ==
    Bind(lysp_load_module_check(unit, info), LAMBDA ret :
        {Checked(TRUE, ret,
                 IF ret = "LY_SUCCESS" THEN PathWarnings(unit, info) ELSE {})}
        \cup (IF ReadsNullRevs(unit, info)
              THEN {Checked(FALSE, "", {})} ELSE {}))

Paths ==
    {<<>>,
     <<"A", ".", "y">>,
     <<"d", "/", "A", ".", "y">>,
     <<"B", ".", "y">>,
     <<"A", "@", "2", "0", "1", "9", "-", "0", "1", "-", "0", "1", ".", "y">>,
     <<"A", "@", "2", "0", "2", "0", "-", "0", "1", "-", "0", "1", ".", "y">>,
     <<"A", "@", "2", "0", "1", "9", ".", "y">>,
     <<"A">>}

ParsedUnits ==
    {[Unit(n, rs, 0) EXCEPT !.submodule = sub[1], !.belongsto = sub[2],
                            !.parsing = sub[3]] :
        n \in Names,
        rs \in {<<>>, <<"2019-01-01">>, <<"2020-01-01">>,
                <<"2020-01-01", "2019-01-01">>},
        sub \in {<<FALSE, None, FALSE>>}
                   \cup ({TRUE} \X Names \X BOOLEAN)}

CheckEnv(unit, info) == [kind |-> "check", unit |-> unit, info |-> info]

InitCheck ==
    /\ ctx_list = EmptyCtx
    /\ last = NoCall
    /\ acq = NoAcq
    /\ pmod = NoPmod
    /\ chk = NoChk
    /\ find = NoFind
    /\ env \in {CheckEnv(unit,
                         [CheckData(n, r) EXCEPT
                             !.path = path,
                             !.submoduleof = IF unit.submodule THEN "A"
                                             ELSE None]) :
                  unit \in ParsedUnits, n \in {None, "A"},
                  r \in Revs \cup {None}, path \in Paths}
    /\ call = NoHelp

LoadModuleCheck ==
    /\ call.op = "none"
    /\ \E r \in CheckOutcomes(env.unit, env.info) :
          call' = [op |-> "lysp_load_module_check", returned |-> r.returned,
                   ret |-> r.ret, warnings |-> r.warnings]
    /\ UNCHANGED <<loadVars, tpdfVars, env>>

NextCheck == LoadModuleCheck

SpecCheck == InitCheck /\ [][NextCheck]_vars

CheckCalled == call.op = "lysp_load_module_check"

NameAsExpected == env.info.name = None \/ env.info.name = env.unit.name

RevisionAsExpected ==
    \/ env.info.revision = None
    \/ env.unit.revs # <<>> /\ env.info.revision = env.unit.revs[1]

SubmoduleAsExpected ==
    \/ ~env.unit.submodule
    \/ env.unit.belongsto = env.info.submoduleof /\ ~env.unit.parsing

\* C17: lysp_load_module_check returns LY_SUCCESS exactly when the name, the
\* newest revision and, for a submodule, the belongs-to and the parsing flag
\* are as expected; the first check that fails decides the error, LY_EINVAL
\* for the name and the revision, LY_EVALID for the submodule checks; the
\* path has no part in the result and only produces warnings.
C17_CheckResult ==
    CheckCalled =>
        /\ call.returned
        /\ call.ret = (IF ~NameAsExpected \/ ~RevisionAsExpected
                       THEN "LY_EINVAL"
                       ELSE IF ~SubmoduleAsExpected THEN "LY_EVALID"
                       ELSE "LY_SUCCESS")
        /\ call.warnings # {} => call.ret = "LY_SUCCESS"

\* the same for the calls that return
C17_CheckResultWhenReturned ==
    (CheckCalled /\ call.returned) =>
        /\ call.ret = (IF ~NameAsExpected \/ ~RevisionAsExpected
                       THEN "LY_EINVAL"
                       ELSE IF ~SubmoduleAsExpected THEN "LY_EVALID"
                       ELSE "LY_SUCCESS")
        /\ call.warnings # {} => call.ret = "LY_SUCCESS"

(***************************************************************************)
(* match_keyword.  The switch over the first character and the macros       *)
(* IF_KEYWORD and IF_KEYWORD_PREFIX are kept as a table in the order of    *)
(* the source: each case lists its alternatives, the first one whose       *)
(* strncmp succeeds is taken and moves data behind the text compared.      *)
(***************************************************************************)
\* IF_KEYWORD(STR, LEN, STMT)
Kw(str, stmt) == [kind |-> "keyword", str |-> str, stmt |-> stmt, then |-> <<>>]

\* IF_KEYWORD_PREFIX(STR, LEN) ... IF_KEYWORD_PREFIX_END
Pre(str, then) ==
    [kind |-> "prefix", str |-> str, stmt |-> "YANG_NONE", then |-> then]

KeywordSwitch ==
    <<<<"a", <<
          Kw(<<"r", "g", "u", "m", "e", "n", "t">>, "YANG_ARGUMENT"),
          Kw(<<"u", "g", "m", "e", "n", "t">>, "YANG_AUGMENT"),
          Kw(<<"c", "t", "i", "o", "n">>, "YANG_ACTION"),
          Pre(<<"n", "y">>, <<
              Kw(<<"d", "a", "t", "a">>, "YANG_ANYDATA"),
              Kw(<<"x", "m", "l">>, "YANG_ANYXML")>>)>>>>,
      <<"b", <<
          Kw(<<"a", "s", "e">>, "YANG_BASE"),
          Kw(<<"e", "l", "o", "n", "g", "s", "-", "t", "o">>, "YANG_BELONGS_TO"),
          Kw(<<"i", "t">>, "YANG_BIT")>>>>,
      <<"c", <<
          Kw(<<"a", "s", "e">>, "YANG_CASE"),
          Kw(<<"h", "o", "i", "c", "e">>, "YANG_CHOICE"),
          Pre(<<"o", "n">>, <<
              Kw(<<"f", "i", "g">>, "YANG_CONFIG"),
              Pre(<<"t", "a">>, <<
                  Kw(<<"c", "t">>, "YANG_CONTACT"),
                  Kw(<<"i", "n", "e", "r">>, "YANG_CONTAINER")>>)>>)>>>>,
      <<"d", <<
          Pre(<<"e">>, <<
              Kw(<<"f", "a", "u", "l", "t">>, "YANG_DEFAULT"),
              Kw(<<"s", "c", "r", "i", "p", "t", "i", "o", "n">>, "YANG_DESCRIPTION"),
              Pre(<<"v", "i", "a", "t">>, <<
                  Kw(<<"e">>, "YANG_DEVIATE"),
                  Kw(<<"i", "o", "n">>, "YANG_DEVIATION")>>)>>)>>>>,
      <<"e", <<
          Kw(<<"n", "u", "m">>, "YANG_ENUM"),
          Pre(<<"r", "r", "o", "r", "-">>, <<
              Kw(<<"a", "p", "p", "-", "t", "a", "g">>, "YANG_ERROR_APP_TAG"),
              Kw(<<"m", "e", "s", "s", "a", "g", "e">>, "YANG_ERROR_MESSAGE")>>),
          Kw(<<"x", "t", "e", "n", "s", "i", "o", "n">>, "YANG_EXTENSION")>>>>,
      <<"f", <<
          Kw(<<"e", "a", "t", "u", "r", "e">>, "YANG_FEATURE"),
          Kw(<<"r", "a", "c", "t", "i", "o", "n", "-", "d", "i", "g", "i", "t", "s">>, "YANG_FRACTION_DIGITS")>>>>,
      <<"g", <<
          Kw(<<"r", "o", "u", "p", "i", "n", "g">>, "YANG_GROUPING")>>>>,
      <<"i", <<
          Kw(<<"d", "e", "n", "t", "i", "t", "y">>, "YANG_IDENTITY"),
          Kw(<<"f", "-", "f", "e", "a", "t", "u", "r", "e">>, "YANG_IF_FEATURE"),
          Kw(<<"m", "p", "o", "r", "t">>, "YANG_IMPORT"),
          Pre(<<"n">>, <<
              Kw(<<"c", "l", "u", "d", "e">>, "YANG_INCLUDE"),
              Kw(<<"p", "u", "t">>, "YANG_INPUT")>>)>>>>,
      <<"k", <<
          Kw(<<"e", "y">>, "YANG_KEY")>>>>,
      <<"l", <<
          Pre(<<"e">>, <<
              Kw(<<"a", "f", "-", "l", "i", "s", "t">>, "YANG_LEAF_LIST"),
              Kw(<<"a", "f">>, "YANG_LEAF"),
              Kw(<<"n", "g", "t", "h">>, "YANG_LENGTH")>>),
          Kw(<<"i", "s", "t">>, "YANG_LIST")>>>>,
      <<"m", <<
          Pre(<<"a">>, <<
              Kw(<<"n", "d", "a", "t", "o", "r", "y">>, "YANG_MANDATORY"),
              Kw(<<"x", "-", "e", "l", "e", "m", "e", "n", "t", "s">>, "YANG_MAX_ELEMENTS")>>),
          Kw(<<"i", "n", "-", "e", "l", "e", "m", "e", "n", "t", "s">>, "YANG_MIN_ELEMENTS"),
          Kw(<<"u", "s", "t">>, "YANG_MUST"),
          Pre(<<"o", "d">>, <<
              Kw(<<"u", "l", "e">>, "YANG_MODULE"),
              Kw(<<"i", "f", "i", "e", "r">>, "YANG_MODIFIER")>>)>>>>,
      <<"n", <<
          Kw(<<"a", "m", "e", "s", "p", "a", "c", "e">>, "YANG_NAMESPACE"),
          Kw(<<"o", "t", "i", "f", "i", "c", "a", "t", "i", "o", "n">>, "YANG_NOTIFICATION")>>>>,
      <<"o", <<
          Pre(<<"r">>, <<
              Kw(<<"d", "e", "r", "e", "d", "-", "b", "y">>, "YANG_ORDERED_BY"),
              Kw(<<"g", "a", "n", "i", "z", "a", "t", "i", "o", "n">>, "YANG_ORGANIZATION")>>),
          Kw(<<"u", "t", "p", "u", "t">>, "YANG_OUTPUT")>>>>,
      <<"p", <<
          Kw(<<"a", "t", "h">>, "YANG_PATH"),
          Kw(<<"a", "t", "t", "e", "r", "n">>, "YANG_PATTERN"),
          Kw(<<"o", "s", "i", "t", "i", "o", "n">>, "YANG_POSITION"),
          Pre(<<"r", "e">>, <<
              Kw(<<"f", "i", "x">>, "YANG_PREFIX"),
              Kw(<<"s", "e", "n", "c", "e">>, "YANG_PRESENCE")>>)>>>>,
      <<"r", <<
          Kw(<<"a", "n", "g", "e">>, "YANG_RANGE"),
          Pre(<<"e">>, <<
              Pre(<<"f">>, <<
                  Kw(<<"e", "r", "e", "n", "c", "e">>, "YANG_REFERENCE"),
                  Kw(<<"i", "n", "e">>, "YANG_REFINE")>>),
              Kw(<<"q", "u", "i", "r", "e", "-", "i", "n", "s", "t", "a", "n", "c", "e">>, "YANG_REQUIRE_INSTANCE"),
              Kw(<<"v", "i", "s", "i", "o", "n", "-", "d", "a", "t", "e">>, "YANG_REVISION_DATE"),
              Kw(<<"v", "i", "s", "i", "o", "n">>, "YANG_REVISION")>>),
          Kw(<<"p", "c">>, "YANG_RPC")>>>>,
      <<"s", <<
          Kw(<<"t", "a", "t", "u", "s">>, "YANG_STATUS"),
          Kw(<<"u", "b", "m", "o", "d", "u", "l", "e">>, "YANG_SUBMODULE")>>>>,
      <<"t", <<
          Kw(<<"y", "p", "e", "d", "e", "f">>, "YANG_TYPEDEF"),
          Kw(<<"y", "p", "e">>, "YANG_TYPE")>>>>,
      <<"u", <<
          Pre(<<"n", "i">>, <<
              Kw(<<"q", "u", "e">>, "YANG_UNIQUE"),
              Kw(<<"t", "s">>, "YANG_UNITS")>>),
          Kw(<<"s", "e", "s">>, "YANG_USES")>>>>,
      <<"v", <<
          Kw(<<"a", "l", "u", "e">>, "YANG_VALUE")>>>>,
      <<"w", <<
          Kw(<<"h", "e", "n">>, "YANG_WHEN")>>>>,
      <<"y", <<
          Kw(<<"a", "n", "g", "-", "v", "e", "r", "s", "i", "o", "n">>, "YANG_YANG_VERSION"),
          Kw(<<"i", "n", "-", "e", "l", "e", "m", "e", "n", "t">>, "YANG_YIN_ELEMENT")>>>>>>

Matched(data, kw) == [data |-> data, kw |-> kw]

\* an if / else if chain of the macros, from alternative i on
RECURSIVE MatchChain(_, _, _, _)
MatchChain(str, data, chain, i) ==
    IF i > Len(chain) THEN Matched(data, "YANG_NONE")
    ELSE IF StrnEq(str, data, chain[i].str, 0, Len(chain[i].str))
    THEN IF chain[i].kind = "keyword"
         THEN Matched(data + Len(chain[i].str), chain[i].stmt)
         ELSE MatchChain(str, data + Len(chain[i].str), chain[i].then, 1)
    ELSE MatchChain(str, data, chain, i + 1)

\* lines 1231-1392: switch (*data)
MatchSwitch(str) ==
    IF \E c \in 1..Len(KeywordSwitch) : KeywordSwitch[c][1] = At(str, 0)
    THEN MatchChain(str, 1,
                    KeywordSwitch[CHOOSE c \in 1..Len(KeywordSwitch) :
                                     KeywordSwitch[c][1] = At(str, 0)][2], 1)
    ELSE Matched(0, "YANG_NONE")

\* line 1403: if (data - start == (long int)len)
WholeMatch_any(m, len) == TRUE

WholeMatch(m, len) == m.data = len

\* lines 1217-1409
match_keyword(str, len, prefix_len) ==
    IF prefix_len # 0 THEN "YANG_CUSTOM"
    ELSE Bind(MatchSwitch(str), LAMBDA m :
            IF WholeMatch(m, len) THEN m.kw ELSE "YANG_NONE")

\* the statements of YANG and their tags
YangStatements ==
    {<<<<"a", "c", "t", "i", "o", "n">>, "YANG_ACTION">>,
     <<<<"a", "n", "y", "d", "a", "t", "a">>, "YANG_ANYDATA">>,
     <<<<"a", "n", "y", "x", "m", "l">>, "YANG_ANYXML">>,
     <<<<"a", "r", "g", "u", "m", "e", "n", "t">>, "YANG_ARGUMENT">>,
     <<<<"a", "u", "g", "m", "e", "n", "t">>, "YANG_AUGMENT">>,
     <<<<"b", "a", "s", "e">>, "YANG_BASE">>,
     <<<<"b", "e", "l", "o", "n", "g", "s", "-", "t", "o">>, "YANG_BELONGS_TO">>,
     <<<<"b", "i", "t">>, "YANG_BIT">>,
     <<<<"c", "a", "s", "e">>, "YANG_CASE">>,
     <<<<"c", "h", "o", "i", "c", "e">>, "YANG_CHOICE">>,
     <<<<"c", "o", "n", "f", "i", "g">>, "YANG_CONFIG">>,
     <<<<"c", "o", "n", "t", "a", "c", "t">>, "YANG_CONTACT">>,
     <<<<"c", "o", "n", "t", "a", "i", "n", "e", "r">>, "YANG_CONTAINER">>,
     <<<<"d", "e", "f", "a", "u", "l", "t">>, "YANG_DEFAULT">>,
     <<<<"d", "e", "s", "c", "r", "i", "p", "t", "i", "o", "n">>, "YANG_DESCRIPTION">>,
     <<<<"d", "e", "v", "i", "a", "t", "e">>, "YANG_DEVIATE">>,
     <<<<"d", "e", "v", "i", "a", "t", "i", "o", "n">>, "YANG_DEVIATION">>,
     <<<<"e", "n", "u", "m">>, "YANG_ENUM">>,
     <<<<"e", "r", "r", "o", "r", "-", "a", "p", "p", "-", "t", "a", "g">>, "YANG_ERROR_APP_TAG">>,
     <<<<"e", "r", "r", "o", "r", "-", "m", "e", "s", "s", "a", "g", "e">>, "YANG_ERROR_MESSAGE">>,
     <<<<"e", "x", "t", "e", "n", "s", "i", "o", "n">>, "YANG_EXTENSION">>,
     <<<<"f", "e", "a", "t", "u", "r", "e">>, "YANG_FEATURE">>,
     <<<<"f", "r", "a", "c", "t", "i", "o", "n", "-", "d", "i", "g", "i", "t", "s">>, "YANG_FRACTION_DIGITS">>,
     <<<<"g", "r", "o", "u", "p", "i", "n", "g">>, "YANG_GROUPING">>,
     <<<<"i", "d", "e", "n", "t", "i", "t", "y">>, "YANG_IDENTITY">>,
     <<<<"i", "f", "-", "f", "e", "a", "t", "u", "r", "e">>, "YANG_IF_FEATURE">>,
     <<<<"i", "m", "p", "o", "r", "t">>, "YANG_IMPORT">>,
     <<<<"i", "n", "c", "l", "u", "d", "e">>, "YANG_INCLUDE">>,
     <<<<"i", "n", "p", "u", "t">>, "YANG_INPUT">>,
     <<<<"k", "e", "y">>, "YANG_KEY">>,
     <<<<"l", "e", "a", "f">>, "YANG_LEAF">>,
     <<<<"l", "e", "a", "f", "-", "l", "i", "s", "t">>, "YANG_LEAF_LIST">>,
     <<<<"l", "e", "n", "g", "t", "h">>, "YANG_LENGTH">>,
     <<<<"l", "i", "s", "t">>, "YANG_LIST">>,
     <<<<"m", "a", "n", "d", "a", "t", "o", "r", "y">>, "YANG_MANDATORY">>,
     <<<<"m", "a", "x", "-", "e", "l", "e", "m", "e", "n", "t", "s">>, "YANG_MAX_ELEMENTS">>,
     <<<<"m", "i", "n", "-", "e", "l", "e", "m", "e", "n", "t", "s">>, "YANG_MIN_ELEMENTS">>,
     <<<<"m", "o", "d", "i", "f", "i", "e", "r">>, "YANG_MODIFIER">>,
     <<<<"m", "o", "d", "u", "l", "e">>, "YANG_MODULE">>,
     <<<<"m", "u", "s", "t">>, "YANG_MUST">>,
     <<<<"n", "a", "m", "e", "s", "p", "a", "c", "e">>, "YANG_NAMESPACE">>,
     <<<<"n", "o", "t", "i", "f", "i", "c", "a", "t", "i", "o", "n">>, "YANG_NOTIFICATION">>,
     <<<<"o", "r", "d", "e", "r", "e", "d", "-", "b", "y">>, "YANG_ORDERED_BY">>,
     <<<<"o", "r", "g", "a", "n", "i", "z", "a", "t", "i", "o", "n">>, "YANG_ORGANIZATION">>,
     <<<<"o", "u", "t", "p", "u", "t">>, "YANG_OUTPUT">>,
     <<<<"p", "a", "t", "h">>, "YANG_PATH">>,
     <<<<"p", "a", "t", "t", "e", "r", "n">>, "YANG_PATTERN">>,
     <<<<"p", "o", "s", "i", "t", "i", "o", "n">>, "YANG_POSITION">>,
     <<<<"p", "r", "e", "f", "i", "x">>, "YANG_PREFIX">>,
     <<<<"p", "r", "e", "s", "e", "n", "c", "e">>, "YANG_PRESENCE">>,
     <<<<"r", "a", "n", "g", "e">>, "YANG_RANGE">>,
     <<<<"r", "e", "f", "e", "r", "e", "n", "c", "e">>, "YANG_REFERENCE">>,
     <<<<"r", "e", "f", "i", "n", "e">>, "YANG_REFINE">>,
     <<<<"r", "e", "q", "u", "i", "r", "e", "-", "i", "n", "s", "t", "a", "n", "c", "e">>, "YANG_REQUIRE_INSTANCE">>,
     <<<<"r", "e", "v", "i", "s", "i", "o", "n">>, "YANG_REVISION">>,
     <<<<"r", "e", "v", "i", "s", "i", "o", "n", "-", "d", "a", "t", "e">>, "YANG_REVISION_DATE">>,
     <<<<"r", "p", "c">>, "YANG_RPC">>,
     <<<<"s", "t", "a", "t", "u", "s">>, "YANG_STATUS">>,
     <<<<"s", "u", "b", "m", "o", "d", "u", "l", "e">>, "YANG_SUBMODULE">>,
     <<<<"t", "y", "p", "e">>, "YANG_TYPE">>,
     <<<<"t", "y", "p", "e", "d", "e", "f">>, "YANG_TYPEDEF">>,
     <<<<"u", "n", "i", "q", "u", "e">>, "YANG_UNIQUE">>,
     <<<<"u", "n", "i", "t", "s">>, "YANG_UNITS">>,
     <<<<"u", "s", "e", "s">>, "YANG_USES">>,
     <<<<"v", "a", "l", "u", "e">>, "YANG_VALUE">>,
     <<<<"w", "h", "e", "n">>, "YANG_WHEN">>,
     <<<<"y", "a", "n", "g", "-", "v", "e", "r", "s", "i", "o", "n">>, "YANG_YANG_VERSION">>,
     <<<<"y", "i", "n", "-", "e", "l", "e", "m", "e", "n", "t">>, "YANG_YIN_ELEMENT">>}

KeywordEnv(data, len) == [kind |-> "keyword", data |-> data, len |-> len]

\* the texts match_keyword is given: each statement name, alone and followed
\* by another character, and two texts that begin no statement; len is any
\* number of their bytes
KeywordTexts ==
    {k[1] : k \in YangStatements}
        \cup {k[1] \o <<"x">> : k \in YangStatements}
        \cup {<<>>, <<"z", "z">>}

InitKeyword ==
    /\ ctx_list = EmptyCtx
    /\ last = NoCall
    /\ acq = NoAcq
    /\ pmod = NoPmod
    /\ chk = NoChk
    /\ find = NoFind
    /\ env \in UNION {{KeywordEnv(t, len) : len \in 0..Len(t)} :
                         t \in KeywordTexts}
    /\ call = NoHelp

MatchKeyword ==
    /\ call.op = "none"
    /\ \E prefix_len \in {0, 2} :
          call' = [op |-> "match_keyword", prefix_len |-> prefix_len,
                   kw |-> match_keyword(env.data, env.len, prefix_len)]
    /\ UNCHANGED <<loadVars, tpdfVars, env>>

NextKeyword == MatchKeyword

SpecKeyword == InitKeyword /\ [][NextKeyword]_vars

KeywordCalled == call.op = "match_keyword"

\* the len bytes given
Given == SubSeq(env.data, 1, env.len)

StatementTag(text) ==
    IF \E k \in YangStatements : k[1] = text
    THEN (CHOOSE k \in YangStatements : k[1] = text)[2]
    ELSE "YANG_NONE"

\* C18: with a prefix length above 0 match_keyword returns the tag of a
\* custom extension; with the prefix length 0 it returns the tag of the
\* statement whose name the len given bytes are, and none when they are the
\* name of no statement.
C18_KeywordExact ==
    KeywordCalled =>
        call.kw = (IF call.prefix_len > 0 THEN "YANG_CUSTOM"
                   ELSE StatementTag(Given))

\* the same when the text ends with the len given bytes
C18_KeywordExactWhenTerminated ==
    (KeywordCalled /\ env.len = Len(env.data)) =>
        call.kw = (IF call.prefix_len > 0 THEN "YANG_CUSTOM"
                   ELSE StatementTag(Given))

(***************************************************************************)
(* lysp_check_date.  strptime and mktime are the C library's; they are     *)
(* modelled by what they do with the format "%Y-%m-%d" and with a day      *)
(* beyond the end of its month.                                            *)
(***************************************************************************)
\* the size of a revision date with its terminating byte
LY_REV_SIZE == 11

DecimalDigits == <<"0", "1", "2", "3", "4", "5", "6", "7", "8", "9">>

isdigit(c) == \E n \in 1..10 : DecimalDigits[n] = c

DigitValue(c) == (CHOOSE n \in 1..10 : DecimalDigits[n] = c) - 1

\* lines 256-265: the format loop; TRUE when it reaches its end
FormatOk(date, date_len) ==
    \A i \in 0..(date_len - 1) :
        IF i = 4 \/ i = 7 THEN At(date, i) = "-" ELSE isdigit(At(date, i))

\* a number of at most width digits read at pos: its value and the offset
\* behind it, width 0 when no digit is there
RECURSIVE ReadNumber(_, _, _, _)
ReadNumber(date, pos, width, value) ==
    IF width > 0 /\ isdigit(At(date, pos))
    THEN ReadNumber(date, pos + 1, width - 1, 10 * value + DigitValue(At(date, pos)))
    ELSE [value |-> value, pos |-> pos]

Tm(year, mon, mday) == [tm_year |-> year, tm_mon |-> mon, tm_mday |-> mday]

NoTm == Tm(0, 0, 0)

\* strptime(date, "%Y-%m-%d", &tm): the offset behind the date, NoPos for a
\* NULL result, and the fields set
strptime(date) ==
    Bind(ReadNumber(date, 0, 4, 0), LAMBDA y :
      IF y.pos = 0 \/ At(date, y.pos) # "-" THEN [r |-> NoPos, tm |-> NoTm]
      ELSE Bind(ReadNumber(date, y.pos + 1, 2, 0), LAMBDA m :
        IF m.pos = y.pos + 1 \/ m.value < 1 \/ m.value > 12 \/ At(date, m.pos) # "-"
        THEN [r |-> NoPos, tm |-> NoTm]
        ELSE Bind(ReadNumber(date, m.pos + 1, 2, 0), LAMBDA d :
          IF d.pos = m.pos + 1 \/ d.value < 1 \/ d.value > 31
          THEN [r |-> NoPos, tm |-> NoTm]
          ELSE [r |-> d.pos, tm |-> Tm(y.value, m.value, d.value)])))

IsLeap(year) == year % 4 = 0 /\ (year % 100 # 0 \/ year % 400 = 0)

MonthDays(year, mon) ==
    IF mon = 2 THEN (IF IsLeap(year) THEN 29 ELSE 28)
    ELSE IF mon \in {4, 6, 9, 11} THEN 30 ELSE 31

\* mktime left without effect on the date
mktime_unchanged(tm) == tm

\* mktime(&tm_): a day behind the end of its month becomes a day of the
\* next month
mktime(tm) ==
    IF tm.tm_mday > MonthDays(tm.tm_year, tm.tm_mon)
    THEN Tm(IF tm.tm_mon = 12 THEN tm.tm_year + 1 ELSE tm.tm_year,
            IF tm.tm_mon = 12 THEN 1 ELSE tm.tm_mon + 1,
            tm.tm_mday - MonthDays(tm.tm_year, tm.tm_mon))
    ELSE tm

\* lines 246-292; isNull stands for date == NULL
lysp_check_date(isNull, date, date_len) ==
    IF isNull THEN "LY_EINVAL"
    ELSE IF date_len # LY_REV_SIZE - 1 THEN "LY_EINVAL"
    ELSE IF ~FormatOk(date, date_len) THEN "LY_EINVAL"
    ELSE Bind(strptime(date), LAMBDA p :
           IF p.r = NoPos \/ p.r # LY_REV_SIZE - 1 THEN "LY_EINVAL"
           ELSE IF p.tm.tm_mday # mktime(p.tm).tm_mday THEN "LY_EINVAL"
           ELSE "LY_SUCCESS")

YearTexts ==
    {<<"0", "0", "0", "0">>, <<"0", "0", "0", "4">>, <<"0", "1", "0", "0">>,
     <<"1", "9", "0", "0">>, <<"2", "0", "0", "0">>, <<"2", "0", "1", "8">>,
     <<"2", "0", "2", "0">>, <<"9", "9", "9", "9">>, <<"2", "0", "x", "8">>,
     <<"2", "0", "1">>, <<"-", "0", "1", "8">>}

MonthTexts ==
    {<<"0", "0">>, <<"0", "1">>, <<"0", "2">>, <<"0", "4">>, <<"0", "6">>,
     <<"0", "9">>, <<"1", "1">>, <<"1", "2">>, <<"1", "3">>, <<"1", "x">>,
     <<"2">>}

DayTexts ==
    {<<"0", "0">>, <<"0", "1">>, <<"2", "8">>, <<"2", "9">>, <<"3", "0">>,
     <<"3", "1">>, <<"3", "2">>, <<"3", "x">>, <<"1">>, <<"2", "8", "1">>,
     <<>>}

Separators == {<<"-">>, <<"/">>, <<>>}

DateTexts ==
    {y \o s1 \o m \o s2 \o d :
        y \in YearTexts, s1 \in Separators, m \in MonthTexts,
        s2 \in Separators, d \in DayTexts}

DateEnv(isNull, date, date_len) ==
    [kind |-> "date", isNull |-> isNull, date |-> date, date_len |-> date_len]

\* date_len is the length of the text or the size of a date
InitDate ==
    /\ ctx_list = EmptyCtx
    /\ last = NoCall
    /\ acq = NoAcq
    /\ pmod = NoPmod
    /\ chk = NoChk
    /\ find = NoFind
    /\ env \in {DateEnv(FALSE, t, Len(t)) : t \in DateTexts}
                \cup {DateEnv(FALSE, t, LY_REV_SIZE - 1) : t \in DateTexts}
                \cup {DateEnv(TRUE, <<>>, LY_REV_SIZE - 1)}
    /\ call = NoHelp

\* stmt and ctx select the message only
CheckDate ==
    /\ call.op = "none"
    /\ \E stmt \in BOOLEAN :
          call' = [op |-> "lysp_check_date", stmt |-> stmt,
                   ret |-> lysp_check_date(env.isNull, env.date, env.date_len)]
    /\ UNCHANGED <<loadVars, tpdfVars, env>>

NextDate == CheckDate

SpecDate == InitDate /\ [][NextDate]_vars

DateCalled == call.op = "lysp_check_date"

\* the date_len bytes given
DateBytes == [i \in 1..env.date_len |-> At(env.date, i - 1)]

Number(text) ==
    IF text = <<>> THEN 0
    ELSE 10 * (IF Len(text) = 1 THEN 0
               ELSE 10 * (IF Len(text) = 2 THEN 0
                          ELSE 10 * (IF Len(text) = 3 THEN 0
                                     ELSE DigitValue(text[Len(text) - 3]))
                               + DigitValue(text[Len(text) - 2]))
                    + DigitValue(text[Len(text) - 1]))
         + DigitValue(text[Len(text)])

Canonical ==
    /\ ~env.isNull
    /\ Len(DateBytes) = 10
    /\ \A i \in 1..10 :
          IF i \in {5, 8} THEN DateBytes[i] = "-"
          ELSE \E n \in 1..10 : DateBytes[i] = DecimalDigits[n]

GregorianLength(year, month) ==
    <<31, IF year % 400 = 0 \/ (year % 4 = 0 /\ year % 100 # 0) THEN 29 ELSE 28,
      31, 30, 31, 30, 31, 31, 30, 31, 30, 31>>[month]

RealDate ==
    /\ Canonical
    /\ Number(SubSeq(DateBytes, 6, 7)) \in 1..12
    /\ Number(SubSeq(DateBytes, 9, 10))
          \in 1..GregorianLength(Number(SubSeq(DateBytes, 1, 4)),
                                 Number(SubSeq(DateBytes, 6, 7)))

\* C19: lysp_check_date accepts the given bytes exactly when they are 10,
\* with '-' at positions 4 and 7 and digits elsewhere, and name a day that
\* exists in the Gregorian calendar (month 01..12, day within the length of
\* the month, leap years counted); everything else is LY_EINVAL.
C19_DateAccepted ==
    DateCalled =>
        call.ret = (IF RealDate THEN "LY_SUCCESS" ELSE "LY_EINVAL")

\* a 29th of February of a leap year is accepted and one of another year is
\* refused
C19_Witness ==
    /\ DateCalled
    /\ Canonical
    /\ SubSeq(DateBytes, 5, 10) = <<"-", "0", "2", "-", "2", "9">>
    /\ call.ret = "LY_SUCCESS"
    /\ Number(SubSeq(DateBytes, 1, 4)) = 2000

C19_WitnessRefused ==
    /\ DateCalled
    /\ DateBytes = <<"2", "0", "1", "8", "-", "0", "2", "-", "2", "9">>
    /\ call.ret = "LY_EINVAL"

(***************************************************************************)
(* The cursor of lys_parse_id and lys_parse_nodeid on any text, well       *)
(* formed or not.                                                          *)
(***************************************************************************)
MaxCursorLen == 4

CursorChars == {"a", "1", ":", " ", "."}

CursorTexts == UNION {[1..k -> CursorChars] : k \in 0..MaxCursorLen}

CursorEnv(text) == [kind |-> "cursor", text |-> text]

InitCursor ==
    /\ ctx_list = EmptyCtx
    /\ last = NoCall
    /\ acq = NoAcq
    /\ pmod = NoPmod
    /\ chk = NoChk
    /\ find = NoFind
    /\ env \in {CursorEnv(t) : t \in CursorTexts}
    /\ call = NoHelp

\* lys_parse_id(&id) with id at the start of the text
ParseIdAt ==
    /\ call.op = "none"
    /\ \E r \in {lys_parse_id(env.text, 0)} :
          call' = [op |-> "lys_parse_id", ret |-> r.ret, id |-> r.id]
    /\ UNCHANGED <<loadVars, tpdfVars, env>>

\* lys_parse_nodeid(&id, ...) with id at the start of the text
ParseNodeidAt ==
    /\ call.op = "none"
    /\ \E r \in {lys_parse_nodeid(env.text, 0)} :
          call' = [op |-> "lys_parse_nodeid", ret |-> r.ret, id |-> r.id]
    /\ UNCHANGED <<loadVars, tpdfVars, env>>

NextCursor == ParseIdAt \/ ParseNodeidAt

SpecCursor == InitCursor /\ [][NextCursor]_vars

CursorCalled == call.op \in {"lys_parse_id", "lys_parse_nodeid"}

\* the lengths of the prefixes of the text that are an identifier, or for
\* lys_parse_nodeid an identifier or prefix:name
Shaped ==
    {k \in 1..Len(env.text) :
        IF call.op = "lys_parse_id" THEN IsIdent(SubSeq(env.text, 1, k))
        ELSE IsSegment(SubSeq(env.text, 1, k))}

Longest == CHOOSE k \in Shaped : \A j \in Shaped : j <= k

\* C21: a successful lys_parse_id or lys_parse_nodeid leaves the cursor
\* behind the longest prefix of the text that has the shape of an identifier
\* (of prefix:name for a node identifier), and a call that returns an error
\* leaves the cursor where it was.
C21_CursorDiscipline ==
    CursorCalled =>
        IF call.ret = "LY_SUCCESS"
        THEN Shaped # {} /\ call.id = Longest
        ELSE call.id = 0

\* the same for lys_parse_id alone
C21_IdCursorDiscipline ==
    call.op = "lys_parse_id" =>
        IF call.ret = "LY_SUCCESS"
        THEN Shaped # {} /\ call.id = Longest
        ELSE call.id = 0

\* a successful lys_parse_nodeid leaves the cursor behind the longest
\* prefix:name or name
C21_NodeidCursorOnSuccess ==
    (call.op = "lys_parse_nodeid" /\ call.ret = "LY_SUCCESS") =>
        Shaped # {} /\ call.id = Longest

(***************************************************************************)
(* lysp_sort_revisions.  The loop is taken one iteration at a time; its    *)
(* indices i and r are uint8_t, the size of the array is not.              *)
(***************************************************************************)
MaxRevs == 3

\* the number of values of a uint8_t
Uint8 == 256

\* a byte as strcmp compares it: the terminating byte, '-', the digits
CharCode(c) ==
    IF c = NUL THEN 0
    ELSE IF c = "-" THEN 45
    ELSE 48 + DigitValue(c)

\* strcmp(a, b) from offset i on: below 0, 0 or above 0
RECURSIVE strcmp_from(_, _, _)
strcmp_from(a, b, i) ==
    IF At(a, i) # At(b, i) THEN CharCode(At(a, i)) - CharCode(At(b, i))
    ELSE IF At(a, i) = NUL THEN 0
    ELSE strcmp_from(a, b, i + 1)

strcmp(a, b) == strcmp_from(a, b, 0)

\* struct lysp_revision: the date and the rest of the statement
Revision(date, dsc) == [date |-> date, dsc |-> dsc]

RevDates ==
    {<<"2", "0", "1", "8", "-", "1", "2", "-", "3", "1">>,
     <<"2", "0", "1", "9", "-", "0", "1", "-", "0", "1">>,
     <<"2", "0", "1", "9", "-", "0", "1", "-", "1", "0">>}

Oldest == <<"2", "0", "1", "8", "-", "1", "2", "-", "3", "1">>

Newest == <<"2", "0", "1", "9", "-", "0", "1", "-", "1", "0">>

\* the arrays of up to MaxRevs revisions, each entry marked by its place
ShortRevs ==
    UNION {{[i \in 1..n |-> Revision(d[i], i)] : d \in [1..n -> RevDates]} :
              n \in 0..MaxRevs}

\* arrays about as long as a uint8_t counts, the newest date at place k
LongRevs ==
    {[i \in 1..n |-> Revision(IF i = k THEN Newest ELSE Oldest, i)] :
        n \in {Uint8 - 1, Uint8, Uint8 + 1}, k \in {1, 2, Uint8 - 1}}

SortEnv(isNull, revs) == [kind |-> "sort", isNull |-> isNull, revs |-> revs]

InitSort ==
    /\ ctx_list = EmptyCtx
    /\ last = NoCall
    /\ acq = NoAcq
    /\ pmod = NoPmod
    /\ chk = NoChk
    /\ find = NoFind
    /\ env \in {SortEnv(FALSE, revs) : revs \in ShortRevs \cup LongRevs}
                \cup {SortEnv(TRUE, <<>>)}
    /\ call = NoHelp

Sorting(pc, i, r, revs) ==
    [op |-> "lysp_sort_revisions", pc |-> pc, i |-> i, r |-> r, revs |-> revs]

\* line 300: i = 1, r = 0
SortEnter ==
    /\ call.op = "none"
    /\ call' = Sorting("loop", 1, 0, env.revs)
    /\ UNCHANGED <<loadVars, tpdfVars, env>>

\* line 300: revs && i < LY_ARRAY_SIZE(revs)
SortCondition == ~env.isNull /\ call.i < Len(call.revs)

\* i++ of a uint8_t
Increment_unbounded(i) == i + 1

Increment(i) == (i + 1) % Uint8

\* lines 300-304: one iteration
SortIterate ==
    /\ call.op = "lysp_sort_revisions"
    /\ call.pc = "loop"
    /\ SortCondition
    /\ call' = [call EXCEPT
                  !.r = IF strcmp(call.revs[call.i + 1].date,
                                  call.revs[call.r + 1].date) > 0
                        THEN call.i ELSE call.r,
                  !.i = Increment(call.i)]
    /\ UNCHANGED <<loadVars, tpdfVars, env>>

\* lines 306-311: the swap and the return
SortReturn ==
    /\ call.op = "lysp_sort_revisions"
    /\ call.pc = "loop"
    /\ ~SortCondition
    /\ call' = [call EXCEPT
                  !.pc = "done",
                  !.revs = IF call.r # 0
                           THEN [call.revs EXCEPT ![1] = call.revs[call.r + 1],
                                                  ![call.r + 1] = call.revs[1]]
                           ELSE call.revs]
    /\ UNCHANGED <<loadVars, tpdfVars, env>>

NextSort == SortEnter \/ SortIterate \/ SortReturn

SpecSort == InitSort /\ [][NextSort]_vars

\* the call is not left half way
SpecSortFair == SpecSort /\ WF_vars(NextSort)

SortDone == call.op = "lysp_sort_revisions" /\ call.pc = "done"

\* the first place that holds the largest date, counted from 0
FirstNewest ==
    CHOOSE k \in 0..(Len(env.revs) - 1) :
        /\ \A j \in 1..Len(env.revs) :
              strcmp(env.revs[j].date, env.revs[k + 1].date) <= 0
        /\ \A j \in 1..k : strcmp(env.revs[j].date, env.revs[k + 1].date) < 0

SwappedWith(k) ==
    [env.revs EXCEPT ![1] = env.revs[k + 1], ![k + 1] = env.revs[1]]

\* C22: lysp_sort_revisions returns for every array of revisions, absent,
\* empty or longer than a uint8_t counts.
C22_SortTerminates == <>SortDone

\* when lysp_sort_revisions returns, revs[0] holds the largest date and the
\* array is the given one with place 0 and the first place of the largest
\* date exchanged
C22_SortedWhenDone ==
    (SortDone /\ env.revs # <<>>) =>
        /\ \A j \in 1..Len(call.revs) :
              strcmp(call.revs[j].date, call.revs[1].date) <= 0
        /\ call.revs = SwappedWith(FirstNewest)

\* the index i has wrapped to 0 inside the loop
C22_IndexWrapped ==
    /\ call.op = "lysp_sort_revisions"
    /\ call.pc = "loop"
    /\ call.i = 0
    /\ Len(env.revs) = Uint8

(***************************************************************************)
(* lysp_check_prefix.  value points to the prefix that is checked: the     *)
(* prefix of the module, the prefix of one of its imports, or a string     *)
(* kept elsewhere.                                                         *)
(***************************************************************************)
\* a const char *: NULL or a string
Str(s) == [null |-> FALSE, s |-> s]

NullStr == [null |-> TRUE, s |-> <<>>]

\* const char **value: where the pointer is kept; place 0 is the module's
\* prefix, place k the prefix of imports[k - 1], place -1 any other place
OwnPlace == 0

Elsewhere == -1

Value(place, str) == [place |-> place, str |-> str]

\* line 208: &module_prefix != value; module_prefix is a parameter of the
\* function, no value the caller holds points to it
NotModulePrefix(value) == TRUE

\* line 214: &i->prefix != value
NotThisImport_always(k, value) == TRUE

NotThisImport(k, value) == value.place # k

\* lines 203-221; imports is the sequence of the import prefixes
lysp_check_prefix(imports, module_prefix, value) ==
    IF ~module_prefix.null /\ NotModulePrefix(value)
       /\ StrEq(module_prefix.s, value.str)
    THEN "LY_EEXIST"
    ELSE IF \E k \in 1..Len(imports) :
               /\ ~imports[k].null
               /\ NotThisImport(k, value)
               /\ StrEq(imports[k].s, value.str)
    THEN "LY_EEXIST"
    ELSE "LY_SUCCESS"

PrefixTexts == {<<"p">>, <<"q">>, <<"p", "q">>}

PrefixPointers == {Str(s) : s \in PrefixTexts} \cup {NullStr}

ImportLists == UNION {[1..n -> PrefixPointers] : n \in 0..MaxImports}

\* the places value may point to: a prefix that is set, or another string
Values(own, imports) ==
    (IF own.null THEN {} ELSE {Value(OwnPlace, own.s)})
        \cup {Value(k, imports[k].s) : k \in {j \in 1..Len(imports) : ~imports[j].null}}
        \cup {Value(Elsewhere, s) : s \in PrefixTexts}

UniqueEnv(own, imports, value) ==
    [kind |-> "unique", own |-> own, imports |-> imports, value |-> value]

InitUnique ==
    /\ ctx_list = EmptyCtx
    /\ last = NoCall
    /\ acq = NoAcq
    /\ pmod = NoPmod
    /\ chk = NoChk
    /\ find = NoFind
    /\ env \in UNION {{UniqueEnv(own, imports, v) : v \in Values(own, imports)} :
                         own \in PrefixPointers, imports \in ImportLists}
    /\ call = NoHelp

CheckPrefix ==
    /\ call.op = "none"
    /\ call' = [op |-> "lysp_check_prefix",
                ret |-> lysp_check_prefix(env.imports, env.own, env.value)]
    /\ UNCHANGED <<loadVars, tpdfVars, env>>

NextUnique == CheckPrefix

SpecUnique == InitUnique /\ [][NextUnique]_vars

UniqueCalled == call.op = "lysp_check_prefix"

EqualsOwnPrefix == ~env.own.null /\ env.own.s = env.value.str

EqualsOtherImport ==
    \E k \in 1..Len(env.imports) :
        /\ k # env.value.place
        /\ ~env.imports[k].null
        /\ env.imports[k].s = env.value.str

\* every prefix of the module is set and passes the check
AllAccepted ==
    /\ ~env.own.null
    /\ \A k \in 1..Len(env.imports) :
          /\ ~env.imports[k].null
          /\ lysp_check_prefix(env.imports, env.own,
                               Value(k, env.imports[k].s)) = "LY_SUCCESS"

\* C23: lysp_check_prefix returns LY_EEXIST exactly when the checked prefix
\* equals the prefix of the module or the prefix of an import other than
\* the one that holds the checked value; so in a module whose import
\* prefixes all pass, the module's prefix differs from every import prefix
\* and the import prefixes differ from each other.
C23_PrefixUnique ==
    UniqueCalled =>
        /\ call.ret = (IF EqualsOwnPrefix \/ EqualsOtherImport
                       THEN "LY_EEXIST" ELSE "LY_SUCCESS")
        /\ AllAccepted =>
              /\ \A k \in 1..Len(env.imports) : env.imports[k].s # env.own.s
              /\ \A j, k \in 1..Len(env.imports) :
                    j # k => env.imports[j].s # env.imports[k].s

\* the prefix of the second import is checked and passes beside a first
\* import with another prefix
C23_Witness ==
    /\ UniqueCalled
    /\ Len(env.imports) = 2
    /\ env.value.place = 2
    /\ AllAccepted
    /\ call.ret = "LY_SUCCESS"

\* the prefix of an import that repeats the prefix of an earlier import is
\* refused
C23_WitnessRefused ==
    /\ UniqueCalled
    /\ Len(env.imports) = 2
    /\ env.value.place = 2
    /\ env.imports[1] = env.imports[2]
    /\ env.own.s # env.value.str
    /\ call.ret = "LY_EEXIST"

(***************************************************************************)
(* lysp_type_str2builtin on the names of the built-in types and on texts   *)
(* close to them.                                                          *)
(***************************************************************************)
BuiltinNames == {b[1] : b \in BuiltinTags}

\* each name, the name followed by another character, and the name with
\* its first or its last character replaced
BuiltinTexts ==
    BuiltinNames
        \cup {n \o <<"x">> : n \in BuiltinNames}
        \cup {<<"x">> \o SubSeq(n, 2, Len(n)) : n \in BuiltinNames}
        \cup {SubSeq(n, 1, Len(n) - 1) \o <<"0">> : n \in BuiltinNames}

BuiltinEnv(name, len) == [kind |-> "builtin", name |-> name, len |-> len]

InitBuiltin ==
    /\ ctx_list = EmptyCtx
    /\ last = NoCall
    /\ acq = NoAcq
    /\ pmod = NoPmod
    /\ chk = NoChk
    /\ find = NoFind
    /\ env \in UNION {{BuiltinEnv(t, len) : len \in 0..Len(t)} :
                         t \in BuiltinTexts}
    /\ call = NoHelp

Str2Builtin ==
    /\ call.op = "none"
    /\ call' = [op |-> "lysp_type_str2builtin",
                type |-> lysp_type_str2builtin(env.name, env.len)]
    /\ UNCHANGED <<loadVars, tpdfVars, env>>

NextBuiltin == Str2Builtin

SpecBuiltin == InitBuiltin /\ [][NextBuiltin]_vars

\* some typedef of the module, of a submodule or of a node has the name of
\* a built-in type
BuiltinNamed ==
    \/ \E i \in 1..Len(TopLevel(pmod)) : TopLevel(pmod)[i] \in BuiltinNames
    \/ \E t \in ScopedTypedefs : NameOf(t) \in BuiltinNames

\* C24: lysp_check_typedefs fails whenever a typedef of the module, of one
\* of its submodules or of a schema node has the name of a built-in type:
\* the check of such a module returns, and not with LY_SUCCESS.
C24_BuiltinNamedTypedefRejected ==
    (Checking /\ BuiltinNamed) => Rejected

\* the check of a module with such a typedef never returns LY_SUCCESS
C24_BuiltinNamedNeverAccepted ==
    (Finished /\ BuiltinNamed) => chk.ret # "LY_SUCCESS"

\* lysp_type_str2builtin returns the tag of the built-in type the len bytes
\* name, and LY_TYPE_UNKNOWN when they name none
C24_BuiltinRecognizer ==
    call.op = "lysp_type_str2builtin" =>
        call.type = TagOf(SubSeq(env.name, 1, env.len))

(***************************************************************************)
(* lysp_load_submodule.  The parsed submodules are objects 1, 2, ...; subs *)
(* holds those that exist.  The local pointer submod is declared without   *)
(* an initial value: before its first assignment it holds whatever the     *)
(* stack held, NULL, the address of an object that exists, or an address   *)
(* that is none.                                                           *)
(***************************************************************************)
NoSub == 0

\* an address that is not the address of a submodule
Wild == -1

\* struct lysp_submodule as far as the loader reads and writes it
Submodule(name, latest_revision) ==
    [name |-> name, latest_revision |-> latest_revision]

\* what the parser makes of a submodule text
SubUnit(n, rs, l, b) ==
    [name |-> n, revs |-> rs, latest_revision |-> l,
     submodule |-> TRUE, belongsto |-> b, parsing |-> FALSE]

\* struct lysp_include: name, rev (empty when none is given), submodule
Include(name, rev, submodule) ==
    [name |-> name, rev |-> rev, submodule |-> submodule]

\* inc->rev[0] ? inc->rev : NULL
IncRev(inc) == inc.rev

\* lys_parse_mem_submodule / lys_parse_fd_ with the main context: a new
\* object for data that parses and passes the check, NULL otherwise
ParseSubmodule(subs, data, info) ==
    IF ~data.ok \/ lysp_load_module_check(data.unit, info) # "LY_SUCCESS"
    THEN [submod |-> NoSub, subs |-> subs]
    ELSE [submod |-> Len(subs) + 1,
          subs |-> Append(subs, Submodule(data.unit.name,
                                          data.unit.latest_revision))]

SubCheckData(inc, mod_name) ==
    [name |-> inc.name, revision |-> IncRev(inc), path |-> None,
     submoduleof |-> mod_name]

\* lines 848-866: the callback block; submod is assigned only when the
\* callback delivered data
sub_search_clb(st, c) ==
    IF ~c.imp_clb \/ c.clb.kind = "miss"
    THEN st
    ELSE Bind(ParseSubmodule(st.subs, c.clb, SubCheckData(c.inc, c.mod_name)),
              LAMBDA p : [st EXCEPT !.submod = p.submod, !.subs = p.subs,
                                    !.produced = p.submod # NoSub])

\* lines 868-872 with lys_module_localfile (681-735): *result is written
\* only when a file was found, opened and parsed
sub_search_file(st, c) ==
    IF c.disable_searchdirs \/ c.file.kind # "data"
    THEN st
    ELSE Bind(ParseSubmodule(st.subs, c.file, SubCheckData(c.inc, c.mod_name)),
              LAMBDA p : IF p.submod = NoSub THEN st
                         ELSE [st EXCEPT !.submod = p.submod, !.subs = p.subs,
                                         !.produced = TRUE])

\* the declaration of line 841 with an initial value
InitialSubmod_null(garbage) == NoSub

\* line 841: struct lysp_submodule *submod;
InitialSubmod(garbage) == garbage

\* lines 846-877
AcquireSubmodule(st, c) ==
    IF ~c.prefer_searchdirs
    THEN Bind(sub_search_clb(st, c), LAMBDA s1 :
            IF s1.submod = NoSub THEN sub_search_file(s1, c) ELSE s1)
    ELSE Bind(sub_search_file(st, c), LAMBDA s1 :
            IF s1.submod = NoSub THEN sub_search_clb(s1, c) ELSE s1)

SubResult(ret, subs, inc, produced) ==
    [ret |-> ret, subs |-> subs, inc |-> inc, produced |-> produced]

\* lines 838-892; a read through an address that is none ends the call
\* without a result
lysp_load_submodule(subs, c, garbage) ==
    Bind(AcquireSubmodule([submod |-> InitialSubmod(garbage), subs |-> subs,
                           produced |-> FALSE], c), LAMBDA a :
      IF a.submod = Wild
      THEN SubResult("no return", a.subs, c.inc, a.produced)
      ELSE IF a.submod # NoSub
      THEN SubResult("LY_SUCCESS",
                     IF IncRev(c.inc) = None
                        /\ a.subs[a.submod].latest_revision = 1
                     THEN [a.subs EXCEPT ![a.submod].latest_revision = 2]
                     ELSE a.subs,
                     [c.inc EXCEPT !.submodule = a.submod], a.produced)
      ELSE IF c.inc.submodule = NoSub
      THEN SubResult("LY_EVALID", a.subs, c.inc, a.produced)
      ELSE SubResult("LY_SUCCESS", a.subs, c.inc, a.produced))

SubUnits ==
    {SubUnit("S", rs, l, "A") : rs \in {<<>>, <<"2019-01-01">>}, l \in 0..2}
        \cup {SubUnit("X", <<>>, 1, "A"), SubUnit("S", <<>>, 1, "B")}

SubAnswers(kinds) ==
    {Answer(k, FALSE, NoUnit) : k \in kinds}
        \cup {Answer("data", FALSE, NoUnit)}
        \cup {Answer("data", TRUE, u) : u \in SubUnits}

\* the submodules parsed before the call
Heaps == {<<>>} \cup {<<Submodule("S", l)>> : l \in 0..2}

SubEnv(subs, c, garbage) ==
    [kind |-> "submodule", subs |-> subs, c |-> c, garbage |-> garbage]

InitSubmod ==
    /\ ctx_list = EmptyCtx
    /\ last = NoCall
    /\ acq = NoAcq
    /\ pmod = NoPmod
    /\ chk = NoChk
    /\ find = NoFind
    /\ env \in UNION {
         {SubEnv(subs,
                 [inc |-> Include("S", rev, NoSub), mod_name |-> "A",
                  prefer_searchdirs |-> prefer, disable_searchdirs |-> disable,
                  imp_clb |-> imp_clb, clb |-> clb, file |-> file], garbage) :
            rev \in {None, "2019-01-01"}, prefer \in BOOLEAN,
            clb \in IF imp_clb THEN SubAnswers({"miss"})
                    ELSE {Answer("miss", FALSE, NoUnit)},
            file \in IF disable THEN {Answer("miss", FALSE, NoUnit)}
                     ELSE SubAnswers({"miss", "search_error", "open_failed"}),
            garbage \in {NoSub, Wild} \cup (1..Len(subs))} :
         subs \in Heaps, imp_clb \in BOOLEAN, disable \in BOOLEAN}
    /\ call = NoHelp

LoadSubmodule ==
    /\ call.op = "none"
    /\ \E r \in {lysp_load_submodule(env.subs, env.c, env.garbage)} :
          call' = [op |-> "lysp_load_submodule", ret |-> r.ret, subs |-> r.subs,
                   inc |-> r.inc, produced |-> r.produced]
    /\ UNCHANGED <<loadVars, tpdfVars, env>>

NextSubmod == LoadSubmodule

SpecSubmod == InitSubmod /\ [][NextSubmod]_vars

SubmodCalled == call.op = "lysp_load_submodule"

\* C27: lysp_load_submodule returns LY_SUCCESS and sets inc->submodule only
\* for a submodule that the callback or the search directories produced in
\* this call; when neither did, also when there is no callback and the
\* search directories are disabled, it returns an error and leaves
\* inc->submodule as it was.
C27_SubmoduleOnlyWhenProduced ==
    SubmodCalled =>
        IF call.produced
        THEN /\ call.ret = "LY_SUCCESS"
             /\ call.inc.submodule = Len(call.subs)
             /\ Len(call.subs) = Len(env.subs) + 1
        ELSE /\ call.ret = "LY_EVALID"
             /\ call.inc = env.c.inc

(***************************************************************************)
(* The latest_revision flag across a call of lysp_load_module and of       *)
(* lysp_load_submodule.                                                    *)
(***************************************************************************)
\* lines 800-804 and 879-883: the flag after the call of a unit parsed with
\* the flag l
Promoted(l, revision) == IF revision = None /\ l = 1 THEN 2 ELSE l

\* lysp_load_module: the flag of a module of the registry is left alone, and
\* the module the sources delivered is linked and parsed and has the flag
\* the parser gave it, 2 in place of 1 when no revision was requested
C25_ModulePromotion ==
    Called =>
        /\ \A i \in InCtx(last.before) :
              ctx_list[i] # NoMod =>
                 ctx_list[i].latest_revision = last.before[i].latest_revision
        /\ acq.as_parsed # Unloaded =>
              /\ last.mod \in InCtx(ctx_list) \ InCtx(last.before)
              /\ ctx_list[last.mod].parsed
              /\ ctx_list[last.mod].latest_revision
                    = Promoted(acq.as_parsed, last.revision)

\* a module parsed with the flag 1 was delivered for a request without
\* revision and has the flag 2
C25_ModuleWitness ==
    /\ Called
    /\ acq.as_parsed = 1
    /\ last.revision = None
    /\ ctx_list[last.mod].latest_revision = 2

\* the flag the parser gave the submodule this call produced
SubAsParsed ==
    IF ~env.c.prefer_searchdirs
          /\ env.c.imp_clb /\ env.c.clb.ok
          /\ lysp_load_module_check(env.c.clb.unit,
                                    SubCheckData(env.c.inc, env.c.mod_name))
                = "LY_SUCCESS"
    THEN env.c.clb.unit.latest_revision
    ELSE IF ~env.c.disable_searchdirs /\ env.c.file.ok
            /\ lysp_load_module_check(env.c.file.unit,
                                      SubCheckData(env.c.inc, env.c.mod_name))
                  = "LY_SUCCESS"
    THEN env.c.file.unit.latest_revision
    ELSE env.c.clb.unit.latest_revision

\* C25: the loader changes latest_revision from 1 to 2 exactly for the unit
\* it acquired from the callback or the search directories in this call
\* when no revision was requested; the flag of every other unit, and of the
\* acquired one in every other case, is left as it was.
C25_PromotionExact ==
    SubmodCalled =>
        /\ \A i \in 1..Len(env.subs) :
              call.subs[i].latest_revision = env.subs[i].latest_revision
        /\ call.produced =>
              call.subs[Len(call.subs)].latest_revision
                 = Promoted(SubAsParsed, IncRev(env.c.inc))

\* the same for the calls in which submod is assigned before it is read
C25_PromotionExactWhenAssigned ==
    (SubmodCalled /\ (call.produced \/ env.garbage = NoSub)) =>
        /\ \A i \in 1..Len(env.subs) :
              call.subs[i].latest_revision = env.subs[i].latest_revision
        /\ call.produced =>
              call.subs[Len(call.subs)].latest_revision
                 = Promoted(SubAsParsed, IncRev(env.c.inc))

(***************************************************************************)
(* Termination of lysp_check_typedefs.                                     *)
(***************************************************************************)
\* the check is not left half way
SpecTpdfFair == SpecTpdf /\ WF_vars(NextTpdf)

\* C26: lysp_check_typedefs returns, with LY_SUCCESS or with an error, for
\* every module of finitely many typedefs, submodules and nodes whose
\* parent chains are finite and without cycle.
C26_CheckTypedefsTerminates == <>Finished

\* the loop over the parents of a node is entered for a typedef whose name
\* no parent declares, and turns without moving to the next parent
C26_LoopEntered ==
    /\ chk.pc = "looping"
    /\ chk.iter = MaxIter
    /\ pmod.parent[chk.cur.node] # NoNode
    /\ chk.cur.name \notin Range(pmod.nodes[pmod.parent[chk.cur.node]])

(***************************************************************************)
(* match_keyword on two texts that agree on the len bytes given.           *)
(***************************************************************************)
\* the texts that begin with the len bytes given
SameGiven ==
    {t \in KeywordTexts : Len(t) >= env.len /\ SubSeq(t, 1, env.len) = Given}

\* C28: the result of match_keyword(data, len, 0) depends on the first len
\* bytes of data only: every text that agrees with data on these bytes
\* gives the same tag.
C28_KeywordDependsOnGivenBytes ==
    (KeywordCalled /\ call.prefix_len = 0) =>
        \A t \in SameGiven : match_keyword(t, env.len, 0) = call.kw

StartsWith(t, w) == Len(t) >= Len(w) /\ SubSeq(t, 1, Len(w)) = w

\* the text goes on behind the len bytes to the name of a longer statement
GoesOn(t) ==
    \E k \in YangStatements : Len(k[1]) > env.len /\ StartsWith(t, k[1])

\* two texts that agree on the len bytes and of which none goes on to a
\* longer statement name give the same tag
C28_KeywordDependsOnGivenBytesElsewhere ==
    (KeywordCalled /\ call.prefix_len = 0 /\ ~GoesOn(env.data)) =>
        \A t \in SameGiven :
            ~GoesOn(t) => match_keyword(t, env.len, 0) = call.kw

(***************************************************************************)
(* What a call of lysp_load_module that fails leaves behind.               *)
(***************************************************************************)
\* the flags of the module in slot i are those the call found
FlagsKept(i) ==
    /\ ctx_list[i].implemented = last.before[i].implemented
    /\ ctx_list[i].latest_revision = last.before[i].latest_revision

\* the module in slot i is implemented now and was not before the call
NewlyImplemented(i) ==
    /\ ctx_list[i].implemented = 1
    /\ last.before[i].implemented # 1

\* C29: when lysp_load_module returns an error, *mod is NULL and the
\* implemented flag and latest_revision of every module are those from
\* before the call; a module becomes implemented only as the module that a
\* successful call with implement set returns.
C29_FailureLeavesFlags ==
    Called =>
        /\ last.ret # "LY_SUCCESS" =>
              /\ last.mod = NullMod
              /\ \A i \in ModIds : FlagsKept(i)
        /\ \A i \in ModIds :
              NewlyImplemented(i) =>
                 /\ last.ret = "LY_SUCCESS"
                 /\ last.implement
                 /\ last.mod = i

\* a call with implement set is denied beside an implemented revision and
\* the registry holds a module that is not implemented
C29_Witness ==
    /\ Called
    /\ last.ret = "LY_EDENIED"
    /\ last.implement
    /\ \E i \in InCtx(ctx_list) : ctx_list[i].implemented = 0
    /\ \A i \in ModIds : FlagsKept(i)

\* a failed acquisition after the callback's module was linked and removed
C29_WitnessLoadFailed ==
    /\ Called
    /\ last.ret = "LY_EVALID"
    /\ \E k \in 1..Len(acq.log) : acq.log[k].out = "compile_failed"
    /\ last.mod = NullMod

(***************************************************************************)
(* lys_resolve_schema_nodeid on node identifiers that name the input and   *)
(* the output of an action.                                                *)
(***************************************************************************)
RpcSegments ==
    {<<"a">>, <<"b">>, <<"i", "n", "p", "u", "t">>,
     <<"o", "u", "t", "p", "u", "t">>}

RpcNodeids ==
    {Join(segs, <<"/">>) : segs \in UNION {[1..k -> RpcSegments] : k \in 1..3}}

InitRpc ==
    /\ ctx_list = EmptyCtx
    /\ last = NoCall
    /\ acq = NoAcq
    /\ pmod = NoPmod
    /\ chk = NoChk
    /\ find = NoFind
    /\ env \in {NodeidEnv(t) : t \in RpcNodeids}
    /\ call = NoHelp

SpecRpc == InitRpc /\ [][NextNodeid]_vars

BothRpcFlags ==
    {"LYSC_OPT_RPC_INPUT", "LYSC_OPT_RPC_OUTPUT"} \subseteq call.result_flag

\* how many of the pieces of the node identifier are input or output
RpcPieces ==
    Cardinality({k \in 1..Len(Pieces(env.nodeid)) :
                    Pieces(env.nodeid)[k] \in {<<"i", "n", "p", "u", "t">>,
                                               <<"o", "u", "t", "p", "u", "t">>}})

\* C30: no result of lys_resolve_schema_nodeid has the flags rpc-input and
\* rpc-output both set, and a node identifier that names input or output
\* more than once is not resolved with LY_SUCCESS.
C30_RpcFlagsExclusive ==
    ResolveCalled =>
        /\ ~BothRpcFlags
        /\ RpcPieces > 1 => call.ret # "LY_SUCCESS"

\* a node identifier with at most one input or output never gives both
\* flags
C30_RpcFlagsExclusiveForOne ==
    (ResolveCalled /\ RpcPieces <= 1) => ~BothRpcFlags

\* "input/output/b" from the action d is resolved to the leaf b of the
\* output with both flags set
C30_BothFlagsSet ==
    /\ ResolveCalled
    /\ call.context_node = 3
    /\ env.nodeid = <<"i", "n", "p", "u", "t", "/", "o", "u", "t", "p", "u", "t", "/", "b">>
    /\ call.ret = "LY_SUCCESS"
    /\ call.target = 5
    /\ BothRpcFlags

=============================================================================
